---- MODULE Spec2Model ----
(***************************************************************************)
(* Traversal-and-convergence engine of the BotHunter VK parser.            *)
(*                                                                         *)
(* Time is counted in ticks of 500 ms, the polling interval of             *)
(* waitForAnyUsers and waitForNextPageButton.  The remote page is the      *)
(* environment: what a probe returns, whether it throws and how long an    *)
(* await takes are chosen nondeterministically inside the sets of `env`.   *)
(***************************************************************************)
EXTENDS Integers, Sequences, FiniteSets, TLC

VARIABLES
    now,    \* Date.now(), in ticks
    env,    \* the environment class of the run: latencies, probe values
    w,      \* the activation of waitForAnyUsers
    r,      \* the activation of clickShowAndWaitWithRetries
    userIds,\* this.userIds, the accumulator
    c,      \* the activation of collectAllContactIds
    k,      \* the activation of waitForNextPageButton
    cfg,    \* this.config and process.env
    n,      \* the activation of parseNewSubsMode
    g,      \* the activation of parseGroupsMode
    ls,     \* the activation of parseListsMode
    p,      \* the activation of parse, with this.page and this.browser
    sel     \* the activation of ensureSelect2Open

vars == <<now, env, w, r, userIds, c, k, cfg, n, g, ls, p, sel>>

(***************************************************************************)
(* Bounds of the model.                                                    *)
(***************************************************************************)
MaxWait == 4         \* largest maxWaitMs tried, in ticks
MaxStable == 2       \* largest minStableMs tried, in ticks
MaxMinCount == 2     \* largest requireMinCount tried
TickWait == 9        \* maxWaitMs of the once-per-tick scenario, in ticks
TickStable == 3      \* largest minStableMs of the once-per-tick scenario
MaxRetries == 3      \* largest retries tried
RetryWait == 2       \* waitMs of the retried readiness check, in ticks
MaxPostDelay == 2    \* largest postReadyDelayMs tried, in ticks
MaxGroups == 2       \* most communities enumerated
MaxBots == 2         \* most active bots enumerated for a community
MaxCommunities == 2
MaxAnchors == 3
MaxSegments == 2
MaxCeiling == 3      \* largest configured maxPages tried; the remote list
                     \* offers an enabled advance control on that many pages
MaxAttempts == 2     \* largest maxAttempts tried besides the default

(***************************************************************************)
(* Program constants.                                                      *)
(***************************************************************************)
NoCount == -1        \* let lastCount = -1
PollInterval == 1    \* waitForTimeout(500)
DefaultMinStable == 4    \* opts?.minStableMs ?? 2000
DefaultMinCount == 1     \* opts?.requireMinCount ?? 1
FirstReadyWait == 40     \* waitForAnyUsers(20000)
GraceDelay == 3          \* waitForTimeout(1500)
DefaultMaxPages == 10000 \* this.config.maxPages || 10000
DefaultSeekWait == 8     \* NEXT_ENABLE_WAIT_MS || '4000'
NewSubsRetries == 5      \* clickShowAndWaitWithRetries(5, ...)
NewSubsMinStable == 6    \* minStableMs: 3000
NewSubsWait == 90        \* NEW_SUBS_WAIT_MS || '45000'
NewSubsPostDelay == 70   \* NEW_SUBS_POST_READY_DELAY_MS || '35000'
PaceMin == 12            \* delay(6000, 8000)
PaceMax == 16
SimplePaceMin == 2       \* delay(1000, 2000)
SimplePaceMax == 4

\* The identifiers a page can show.
Ids == {1, 2}

(***************************************************************************)
(* waitForAnyUsers                                                         *)
(***************************************************************************)

\* One entry of the sample history: the time the sample ended, what the
\* pagination check gave ("off" when the shortcut is disabled), what the
\* count probe gave ("none" when it was not reached) and the count.
Sample(t, sc, pr, v) == [t |-> t, sc |-> sc, pr |-> pr, v |-> v]

\* The sample history is kept for the properties only; env.history says
\* whether the run keeps it.
Record(log, e) == IF env.history THEN Append(log, e) ELSE log

WIdle ==
    [pc |-> "idle", maxWait |-> 0, minStable |-> 0, shortcut |-> FALSE,
     minCount |-> 0, start |-> 0, lastCount |-> NoCount, lastChangeTs |-> 0,
     result |-> FALSE, log |-> <<>>]

\* while (Date.now() - start < maxWaitMs)
WithinWaitInclusive(t, start, maxWait) == t - start <= maxWait
WithinWait(t, start, maxWait) == t - start < maxWait

\* if (count !== lastCount)
CountIncreased(count, lastCount) == count > lastCount
CountChanged(count, lastCount) == count # lastCount

\* if (count >= requireMinCount && Date.now() - lastChangeTs >= minStableMs)
StableOnly(count, minCount, t, lastChangeTs, minStable) ==
    t - lastChangeTs >= minStable
StableAfter(count, minCount, t, lastChangeTs, minStable) ==
    count >= minCount /\ t - lastChangeTs > minStable
IsReady(count, minCount, t, lastChangeTs, minStable) ==
    count >= minCount /\ t - lastChangeTs >= minStable

\* if (hasPagination) return true
ShortcutNeedsProbe(sc) == FALSE
ShortcutHit(sc) == sc = "present"

\* The loop test at the top of the while: leave with false once maxWait
\* has elapsed, otherwise take the next sample.
WLoopHead(rec, t) ==
    IF WithinWait(t, rec.start, rec.maxWait)
    THEN [rec EXCEPT !.pc = "sample"]
    ELSE [rec EXCEPT !.pc = "done", !.result = FALSE]

\* A call that starts with a recorded count of 0.
WaitForAnyUsersCallFromZero(maxWait, minStable, shortcut, minCount, t) ==
    WLoopHead([pc |-> "sample", maxWait |-> maxWait, minStable |-> minStable,
               shortcut |-> shortcut, minCount |-> minCount, start |-> t,
               lastCount |-> 0, lastChangeTs |-> t, result |-> FALSE,
               log |-> <<>>], t)

\* A thrown sample that restarts the stability clock.
WAfterThrowResetting(rec, t, sc) ==
    [rec EXCEPT !.pc = "sleep", !.lastChangeTs = t,
                !.log = Record(@, Sample(t, sc, IF sc = "throw" THEN "none" ELSE "throw", 0))]

\* The call: the defaults of opts, start, lastCount, lastChangeTs and the
\* first loop test.
WaitForAnyUsersCall(maxWait, minStable, shortcut, minCount, t) ==
    WLoopHead([pc |-> "sample", maxWait |-> maxWait, minStable |-> minStable,
               shortcut |-> shortcut, minCount |-> minCount, start |-> t,
               lastCount |-> NoCount, lastChangeTs |-> t, result |-> FALSE,
               log |-> <<>>], t)

\* A probe that threw: the catch swallows it, nothing is recorded.
WAbortOnThrow(rec, t, sc) ==
    [rec EXCEPT !.pc = "done", !.result = FALSE,
                !.log = Record(@, Sample(t, sc, "throw", 0))]
WAfterThrow(rec, t, sc) ==
    [rec EXCEPT !.pc = "sleep",
                !.log = Record(@, Sample(t, sc, IF sc = "throw" THEN "none" ELSE "throw", 0))]

\* The count probe returned `count` at time t.
WAfterCount(rec, t, sc, count) ==
    LET changed == CountChanged(count, rec.lastCount)
        lc  == IF changed THEN count ELSE rec.lastCount
        lts == IF changed THEN t ELSE rec.lastChangeTs
        ok  == IsReady(count, rec.minCount, t, lts, rec.minStable)
    IN [rec EXCEPT !.lastCount = lc, !.lastChangeTs = lts,
                   !.pc = IF ok THEN "done" ELSE "sleep",
                   !.result = ok,
                   !.log = Record(@, Sample(t, sc, "ok", count))]

\* The pagination region is there: return true.
WAfterShortcut(rec, t) ==
    [rec EXCEPT !.pc = "done", !.result = TRUE,
                !.log = Record(@, Sample(t, "present", "none", 0))]

\* The body of one iteration (the try block).  sc is what the pagination
\* check gives, pr what the count probe gives, d the time the awaits take.
WBody(rec, t, sc, pr, count) ==
    IF rec.shortcut /\ sc = "throw" THEN WAfterThrow(rec, t, "throw")
    ELSE IF rec.shortcut /\ ShortcutHit(sc) THEN WAfterShortcut(rec, t)
    ELSE LET s == IF rec.shortcut THEN sc ELSE "off"
         IN IF pr = "throw" THEN WAfterThrow(rec, t, s)
            ELSE WAfterCount(rec, t, s, count)

ScOutcomes == {"absent", "present", "throw"}
PrOutcomes == {"ok", "throw"}

WSample ==
    /\ w.pc = "sample"
    /\ \E d \in env.lat, sc \in ScOutcomes, pr \in PrOutcomes, count \in env.counts :
         /\ sc \in (IF w.shortcut THEN ScOutcomes ELSE {"absent"})
         /\ (sc = "throw" \/ pr = "throw") => env.mayThrow
         /\ (pr = "throw" \/ (w.shortcut /\ sc # "absent")) => count = 0
         /\ (w.shortcut /\ sc # "absent") => pr = "ok"
         /\ now' = now + d
         /\ w' = WBody(w, now + d, sc, pr, count)
    /\ UNCHANGED <<env, r, userIds, c, k, cfg, n, g, ls, p, sel>>

\* await this.page.waitForTimeout(500), then the loop test.
WSleep ==
    /\ w.pc = "sleep"
    /\ \E d \in env.steps :
         /\ now' = now + d
         /\ w' = WLoopHead(w, now + d)
    /\ UNCHANGED <<env, r, userIds, c, k, cfg, n, g, ls, p, sel>>

(***************************************************************************)
(* clickShowAndWaitWithRetries                                             *)
(***************************************************************************)

RIdle ==
    [pc |-> "idle", retries |-> 0, attempt |-> 0, waitMs |-> 0,
     minStable |-> 0, shortcut |-> FALSE, minCount |-> 0, postDelay |-> 0,
     outcome |-> "none", clicks |-> 0, checks |-> 0, failed |-> 0,
     readyTs |-> 0, doneTs |-> 0, cause |-> "none"]

\* for (let attempt = 1; attempt <= retries; attempt++)
MoreAttemptsExclusive(attempt, retries) == attempt < retries
MoreAttempts(attempt, retries) == attempt <= retries

\* The loop test of the for: the next attempt, or return false.
RLoopHead(rec, t) ==
    IF MoreAttempts(rec.attempt, rec.retries)
    THEN [rec EXCEPT !.pc = "trigger"]
    ELSE [rec EXCEPT !.pc = "done", !.outcome = "false", !.doneTs = t]

\* The call, with attempt = 1 and the first loop test.
ClickShowCall(retries, waitMs, minStable, shortcut, minCount, postDelay, t) ==
    RLoopHead([RIdle EXCEPT !.retries = retries, !.attempt = 1,
                            !.waitMs = waitMs, !.minStable = minStable,
                            !.shortcut = shortcut, !.minCount = minCount,
                            !.postDelay = postDelay], t)

\* A rejected trigger counted as a failed attempt.
RTriggerErrorCounted(rec, t) ==
    RLoopHead([rec EXCEPT !.failed = @ + 1, !.attempt = @ + 1,
                          !.cause = "error"], t)

\* showBtn.waitFor / showBtn.click rejected: the error leaves the function.
RAfterTriggerError(rec, t) ==
    [rec EXCEPT !.pc = "done", !.outcome = "raised", !.doneTs = t,
                !.cause = "error"]

\* showBtn.waitFor({ state: 'visible', timeout: 10000 })
ShowWait == 20

\* ensureSelect2Open(selection, maxAttempts = 5)
DefaultAttempts == 5

\* selection.click({ timeout: 2000 })
ClickWait == 4

\* The show control did not become visible within the timeout: waitFor
\* rejects and nothing catches it.
RAfterShowTimeout(rec, t) ==
    [rec EXCEPT !.pc = "done", !.outcome = "raised", !.doneTs = t,
                !.cause = "timeout"]

\* The click went through: the readiness check is started.
RAfterClick(rec) ==
    [rec EXCEPT !.pc = "check", !.clicks = @ + 1]

\* if (ok) { await waitForTimeout(postReadyDelayMs ?? 500); return true; }
RAfterReadyNoDelay(rec, t) ==
    [rec EXCEPT !.pc = "done", !.outcome = "true", !.checks = @ + 1,
                !.readyTs = t, !.doneTs = t]
RAfterReady(rec, t) ==
    [rec EXCEPT !.pc = "done", !.outcome = "true", !.checks = @ + 1,
                !.readyTs = t, !.doneTs = t + rec.postDelay]

\* The readiness check failed: log, attempt++, loop test.
RAfterNotReady(rec, t) ==
    RLoopHead([rec EXCEPT !.checks = @ + 1, !.failed = @ + 1,
                          !.attempt = @ + 1], t)

TriggerOutcomes == {"clicked", "timeout", "error"}

\* One trigger: wait for the show control, click it, waitForTimeout(150),
\* waitForLoadState, and call waitForAnyUsers.
RTrigger ==
    /\ r.pc = "trigger"
    /\ \E o \in TriggerOutcomes, d \in env.lat :
         /\ o # "clicked" => env.mayThrow
         /\ now' = IF o = "timeout" THEN now + ShowWait ELSE now + d
         /\ CASE o = "clicked" ->
                   /\ r' = RAfterClick(r)
                   /\ w' = WaitForAnyUsersCall(r.waitMs, r.minStable, r.shortcut,
                                               r.minCount, now + d)
              [] o = "timeout" ->
                   /\ r' = RAfterShowTimeout(r, now + ShowWait)
                   /\ w' = w
              [] OTHER ->
                   /\ r' = RAfterTriggerError(r, now + d)
                   /\ w' = w
    /\ UNCHANGED <<env, userIds, c, k, cfg, n, g, ls, p, sel>>

\* waitForAnyUsers has returned: sleep and return true, or try again.
RCheck ==
    /\ r.pc = "check"
    /\ w.pc = "done"
    /\ r' = IF w.result THEN RAfterReady(r, now) ELSE RAfterNotReady(r, now)
    /\ now' = IF w.result THEN r'.doneTs ELSE now
    /\ w' = WIdle
    /\ UNCHANGED <<env, userIds, c, k, cfg, n, g, ls, p, sel>>

(***************************************************************************)
(* waitForNextPageButton                                                   *)
(***************************************************************************)

\* nan says that timeoutMs is NaN (the setting did not parse as a number).
KIdle ==
    [pc |-> "idle", start |-> 0, timeout |-> 0, nan |-> FALSE,
     found |-> FALSE, last |-> "none", samples |-> 0]

\* while (Date.now() - start < timeoutMs); a comparison with NaN is false.
SeekWithin(t, start, timeout, nan) == ~nan /\ t - start < timeout

\* A loop that samples once before it looks at the clock.
KLoopHeadSampleFirst(rec, t) ==
    IF rec.samples = 0 \/ (~rec.nan /\ t - rec.start < rec.timeout)
    THEN [rec EXCEPT !.pc = "sample"]
    ELSE [rec EXCEPT !.pc = "done", !.found = FALSE]

\* The loop test: sample the page, or return null.
KLoopHead(rec, t) ==
    IF SeekWithin(t, rec.start, rec.timeout, rec.nan)
    THEN [rec EXCEPT !.pc = "sample"]
    ELSE [rec EXCEPT !.pc = "done", !.found = FALSE]

SeekCall(timeout, nan, t) ==
    KLoopHead([KIdle EXCEPT !.start = t, !.timeout = timeout, !.nan = nan], t)

\* if (await enabled.count()) return enabled.first();
\* a disabled control and no control both lead to waitForTimeout(500).
KAbsentEndsSeek(rec, o) ==
    CASE o = "enabled" ->
           [rec EXCEPT !.pc = "done", !.found = TRUE, !.last = o, !.samples = @ + 1]
      [] o = "absent" ->
           [rec EXCEPT !.pc = "done", !.found = FALSE, !.last = o, !.samples = @ + 1]
      [] OTHER -> [rec EXCEPT !.pc = "sleep", !.last = o, !.samples = @ + 1]
\* A seek that waits for a control to appear, with no timeout.
KAbsentBlocks(rec, o) ==
    CASE o = "enabled" ->
           [rec EXCEPT !.pc = "done", !.found = TRUE, !.last = o, !.samples = @ + 1]
      [] o = "absent" ->
           [rec EXCEPT !.pc = "blocked", !.last = o, !.samples = @ + 1]
      [] OTHER -> [rec EXCEPT !.pc = "sleep", !.last = o, !.samples = @ + 1]
KAfterSample(rec, o) ==
    IF o = "enabled"
    THEN [rec EXCEPT !.pc = "done", !.found = TRUE, !.last = o, !.samples = @ + 1]
    ELSE [rec EXCEPT !.pc = "sleep", !.last = o, !.samples = @ + 1]

ControlStates == {"enabled", "disabled", "absent"}

\* The remote list offers an enabled advance control on a bounded number of
\* pages; that number exceeds every ceiling that is configured.
RemoteMayAdvance == c.iterations <= MaxCeiling

KSample ==
    /\ k.pc = "sample"
    /\ \E o \in ControlStates, d \in env.lat :
         /\ o = "enabled" => RemoteMayAdvance
         /\ now' = now + d
         /\ k' = KAfterSample(k, o)
    /\ UNCHANGED <<env, w, r, userIds, c, cfg, n, g, ls, p, sel>>

KSleep ==
    /\ k.pc = "sleep"
    /\ \E d \in env.steps :
         /\ now' = now + d
         /\ k' = KLoopHead(k, now + d)
    /\ UNCHANGED <<env, w, r, userIds, c, cfg, n, g, ls, p, sel>>

(***************************************************************************)
(* collectAllContactIds                                                    *)
(***************************************************************************)

\* seekWait and seekNaN are parseInt(process.env.NEXT_ENABLE_WAIT_MS || '4000'):
\* the number in ticks, or NaN.  maxPages and pagesNaN are this.config.maxPages:
\* the number, or no number (undefined, or the NaN of a setting that did not
\* parse).
NoConfig ==
    [maxPages |-> 0, seekWait |-> 0, seekNaN |-> FALSE, pagesNaN |-> FALSE,
     variant |-> "none", newSubsWait |-> 0, newSubsPost |-> 0]

\* control is what the one query of bothunter-vk-simple.ts for the advance
\* control found in the last iteration.
CIdle ==
    [pc |-> "idle", currentPage |-> 0, maxPages |-> 0, outcome |-> "none",
     result |-> {}, iterations |-> 0, advances |-> 0, failedClicks |-> 0,
     pollerCalls |-> 0, firstReady |-> FALSE, grace |-> FALSE, pages |-> <<>>,
     control |-> "none", contents |-> <<>>]

\* const maxPages = this.config.maxPages || 10000
MaxPagesAsConfigured(configured, nan) == IF nan THEN 0 ELSE configured
MaxPagesOf(configured, nan) ==
    IF nan \/ configured = 0 THEN DefaultMaxPages ELSE configured

\* while (currentPage <= maxPages)
MorePagesBeyond(currentPage, maxPages) == currentPage <= maxPages + 2
MorePages(currentPage, maxPages) == currentPage <= maxPages

\* this.userIds.clear()
Kept(ids) == ids
Cleared(ids) == {}

\* A page is the sequence of the identifier mentions of its text: the form
\* of the mention ("ID: 7", "ID7", "@id7"), the identifier, and whether the
\* mention is the text of an element of class user, contact or member.
Forms == {"colon", "plain", "at"}
Mention(form, id, inElement) == [form |-> form, id |-> id, inElement |-> inElement]

\* idPatterns, all with the flags g and i: /ID\s*[:\s]*(\d+)/ matches every
\* form, /ID(\d+)/ the forms without a separator, /@id(\d+)/ the last one.
Patterns == <<{"colon", "plain", "at"}, {"plain", "at"}, {"at"}>>

\* for (const match of text.matchAll(pattern)) userIds.push(match[1])
MatchAll(pattern, text) ==
    LET Hit(m) == m.form \in pattern
        hits == SelectSeq(text, Hit)
    IN [x \in 1..Len(hits) |-> hits[x].id]

\* for (const pattern of idPatterns) { ... }
MatchPatterns(text) ==
    MatchAll(Patterns[1], text) \o MatchAll(Patterns[2], text)
        \o MatchAll(Patterns[3], text)

\* userElements.forEach(element => { ... })
RECURSIVE MatchElements(_)
MatchElements(text) ==
    IF text = <<>> THEN <<>>
    ELSE (IF Head(text).inElement THEN MatchPatterns(<<Head(text)>>) ELSE <<>>)
             \o MatchElements(Tail(text))

\* [...new Set(userIds)]
RECURSIVE Unique(_, _)
Unique(pushed, seen) ==
    IF pushed = <<>> THEN seen
    ELSE Unique(Tail(pushed),
                IF \E x \in 1..Len(seen) : seen[x] = Head(pushed) THEN seen
                ELSE Append(seen, Head(pushed)))

\* extractUserIds: the matches inside the user elements, then those of the
\* whole text, without repetitions.
ExtractUserIds(content) ==
    Unique(MatchElements(content) \o MatchPatterns(content), <<>>)

\* The pages the remote list shows.
PageContents ==
    {<<>>,
     <<Mention("colon", 1, TRUE)>>,
     <<Mention("at", 2, FALSE)>>,
     <<Mention("colon", 1, FALSE), Mention("plain", 1, TRUE),
       Mention("at", 2, TRUE)>>}

\* The set of the identifiers of an array.
SetOf(ids) == {ids[x] : x \in 1..Len(ids)}

\* The pages extracted during the traversal, kept when the environment
\* asks for it.
Extracted(rec, content) ==
    IF env.contents THEN [rec EXCEPT !.contents = Append(@, content)] ELSE rec

\* A merge that takes out the identifiers it already holds.
MergeToggling(acc, pageIds) == (acc \ pageIds) \cup (pageIds \ acc)

\* pageIds.forEach(id => this.userIds.add(id))
LastPageOnly(acc, pageIds) == pageIds
Merge(acc, pageIds) == acc \cup pageIds

\* return Array.from(this.userIds)
CReturn(rec, ids) ==
    [rec EXCEPT !.pc = "done", !.outcome = "returned", !.result = ids]

\* The loop test of the while: extract the page shown, or return.
CLoopHead(rec, ids) ==
    IF MorePages(rec.currentPage, rec.maxPages)
    THEN [rec EXCEPT !.pc = "extract"]
    ELSE CReturn(rec, ids)

\* currentPage = 1, maxPages, and the call of waitForAnyUsers(20000).
CollectCall(configured, nan) ==
    [CIdle EXCEPT !.pc = "firstReady", !.currentPage = 1,
                  !.maxPages = MaxPagesOf(configured, nan),
                  !.pollerCalls = 1]

\* The start of a traversal: the accumulator is cleared, the load state is
\* awaited (d) and the first readiness wait is started.
CStart ==
    /\ c.pc = "idle"
    /\ cfg.variant = "full"
    /\ n.pc \in {"idle", "collect"}
    /\ g.pc \in {"idle", "collect"}
    /\ ls.pc \in {"idle", "collect"}
    /\ p.pc \in {"idle", "mode"}
    /\ \E d \in env.lat :
         /\ now' = now + d
         /\ w' = WaitForAnyUsersCall(FirstReadyWait, DefaultMinStable, TRUE,
                                     DefaultMinCount, now + d)
    /\ userIds' = Cleared(userIds)
    /\ c' = CollectCall(cfg.maxPages, cfg.pagesNaN)
    /\ UNCHANGED <<env, r, k, cfg, n, g, ls, p, sel>>

\* A failed first readiness wait ending the traversal with nothing.
CFirstReadyOrGiveUp ==
    /\ c.pc = "firstReady"
    /\ w.pc = "done"
    /\ now' = now
    /\ c' = IF w.result
            THEN CLoopHead([c EXCEPT !.firstReady = TRUE], userIds)
            ELSE CReturn(c, {})
    /\ w' = WIdle
    /\ UNCHANGED <<env, r, userIds, k, cfg, n, g, ls, p, sel>>

\* waitForAnyUsers has returned: a pause when it failed, then the loop.
CFirstReady ==
    /\ c.pc = "firstReady"
    /\ w.pc = "done"
    /\ now' = IF w.result THEN now ELSE now + GraceDelay
    /\ c' = CLoopHead([c EXCEPT !.firstReady = w.result, !.grace = ~w.result],
                      userIds)
    /\ w' = WIdle
    /\ UNCHANGED <<env, r, userIds, k, cfg, n, g, ls, p, sel>>

\* extractUserIds rejected: the error leaves collectAllContactIds.
CAfterExtractError(rec) ==
    [rec EXCEPT !.pc = "done", !.outcome = "raised", !.iterations = @ + 1]

CAfterExtract(rec, pageIds) ==
    [rec EXCEPT !.pc = "seek", !.iterations = @ + 1,
                !.pages = Append(@, pageIds)]

ExtractOutcomes == {"ok", "throw"}

\* One extraction: the page's ids are merged and the seek of the advance
\* control is started.
CExtract ==
    /\ c.pc = "extract"
    /\ \E o \in ExtractOutcomes, content \in PageContents, d \in env.lat :
         /\ o = "throw" => (env.mayThrow /\ content = <<>>)
         /\ now' = now + d
         /\ IF o = "ok"
            THEN LET pageIds == SetOf(ExtractUserIds(content))
                 IN /\ userIds' = Merge(userIds, pageIds)
                    /\ c' = Extracted(CAfterExtract(c, pageIds), content)
                    /\ k' = SeekCall(cfg.seekWait, cfg.seekNaN, now + d)
            ELSE /\ userIds' = userIds
                 /\ c' = CAfterExtractError(c)
                 /\ k' = k
    /\ UNCHANGED <<env, w, r, cfg, n, g, ls, p, sel>>

\* An iteration that clicks the advance control twice.
CAfterClickTwice(rec, clicked) ==
    [rec EXCEPT !.pc = "settle", !.advances = @ + 2,
                !.failedClicks = IF clicked THEN @ ELSE @ + 1]

\* A failed click that is not caught and ends the traversal.
CAfterClickRaising(rec, clicked) ==
    IF clicked THEN [rec EXCEPT !.pc = "settle", !.advances = @ + 1]
    ELSE [rec EXCEPT !.pc = "done", !.outcome = "raised", !.failedClicks = @ + 1]

\* nextLocator.click({ timeout: 10000 }).catch(() => {}): a failed click is
\* swallowed, and the load wait follows.
CAfterClick(rec, clicked) ==
    [rec EXCEPT !.pc = "settle", !.advances = @ + 1,
                !.failedClicks = IF clicked THEN @ ELSE @ + 1]

\* waitForNextPageButton has returned: break on null, else the click.
CAdvance ==
    /\ c.pc = "seek"
    /\ k.pc = "done"
    /\ \E clicked \in BOOLEAN :
         /\ ~k.found => clicked
         /\ c' = IF k.found THEN CAfterClick(c, clicked)
                            ELSE CReturn(c, userIds)
    /\ k' = KIdle
    /\ UNCHANGED <<now, env, w, r, userIds, cfg, n, g, ls, p, sel>>

\* await this.page.waitForLoadState('networkidle').catch(() => {})
CSettle ==
    /\ c.pc = "settle"
    /\ \E d \in env.lat : now' = now + d
    /\ c' = [c EXCEPT !.pc = "pace"]
    /\ UNCHANGED <<env, w, r, userIds, k, cfg, n, g, ls, p, sel>>

\* The time at which delay(min, max) resolves when it was called at t and
\* drew d, and a delay that resolves at once.
Unpaced(t, d) == t
Paced(t, d) == t + d

\* The pacing delay is over: currentPage++ and the loop test.
CAfterAdvance(rec, ids) ==
    CLoopHead([rec EXCEPT !.currentPage = @ + 1], ids)

\* await this.delay(6000, 8000); currentPage++
CPace ==
    /\ c.pc = "pace"
    /\ \E d \in env.pace : now' = Paced(now, d)
    /\ c' = CAfterAdvance(c, userIds)
    /\ UNCHANGED <<env, w, r, userIds, k, cfg, n, g, ls, p, sel>>

(***************************************************************************)
(* collectAllContactIds of bothunter-vk-simple.ts: no readiness wait, one  *)
(* query for the advance control, and a click whose failure is not caught. *)
(***************************************************************************)

\* const maxPages = this.config.maxPages || 10000
SMaxPagesOf(configured, nan) ==
    IF nan \/ configured = 0 THEN DefaultMaxPages ELSE configured

\* while (currentPage <= maxPages)
SMorePages(currentPage, maxPages) == currentPage <= maxPages

SLoopHead(rec, ids) ==
    IF SMorePages(rec.currentPage, rec.maxPages)
    THEN [rec EXCEPT !.pc = "iterate"]
    ELSE CReturn(rec, ids)

SStart ==
    /\ c.pc = "idle"
    /\ cfg.variant = "simple"
    /\ g.pc \in {"idle", "collect"}
    /\ ls.pc \in {"idle", "collect"}
    /\ p.pc \in {"idle", "mode"}
    /\ userIds' = Cleared(userIds)
    /\ LET maxPages == SMaxPagesOf(cfg.maxPages, cfg.pagesNaN)
       IN c' = SLoopHead([CIdle EXCEPT !.currentPage = 1,
                                       !.maxPages = maxPages],
                         Cleared(userIds))
    /\ UNCHANGED <<now, env, w, r, k, cfg, n, g, ls, p, sel>>

\* What one iteration meets: extractUserIds rejects; no enabled control; a
\* control that reports itself disabled; a click and load wait that go
\* through; a click or load wait that rejects.
SimpleOutcomes == {"extractError", "absent", "disabled", "advanced", "clickError"}

SAfterIteration(rec, o, pageIds, ids) ==
    LET it == [rec EXCEPT !.iterations = @ + 1]
        ex == [it EXCEPT !.pages = Append(@, pageIds),
                         !.control = IF o \in {"absent", "disabled"} THEN o
                                     ELSE "enabled"]
    IN CASE o = "extractError" -> [it EXCEPT !.pc = "done", !.outcome = "raised"]
         [] o = "clickError" -> [ex EXCEPT !.pc = "done", !.outcome = "raised"]
         [] o \in {"absent", "disabled"} -> CReturn(ex, ids)
         [] o = "advanced" ->
              SLoopHead([ex EXCEPT !.advances = @ + 1, !.currentPage = @ + 1], ids)

SIterate ==
    /\ c.pc = "iterate"
    /\ \E o \in SimpleOutcomes, content \in PageContents,
          d \in {SimplePaceMin, SimplePaceMax} :
         /\ o \in {"extractError", "clickError"} => env.mayThrow
         /\ o = "extractError" => content = <<>>
         /\ o = "advanced" => RemoteMayAdvance
         /\ o # "advanced" => d = SimplePaceMin
         /\ now' = IF o = "advanced" THEN now + d ELSE now
         /\ LET pageIds == SetOf(ExtractUserIds(content))
            IN /\ userIds' = IF o = "extractError" THEN userIds
                             ELSE Merge(userIds, pageIds)
               /\ c' = IF o = "extractError"
                       THEN SAfterIteration(c, o, {}, userIds')
                       ELSE Extracted(SAfterIteration(c, o, pageIds, userIds'),
                                      content)
    /\ UNCHANGED <<env, w, r, k, cfg, n, g, ls, p, sel>>

(***************************************************************************)
(* parseNewSubsMode                                                        *)
(***************************************************************************)

\* i and b are the loop indices (from 1), ngroups the communities
\* enumerated, nb the active bots of the current community, groupIds its
\* Set, files the artifacts written so far.  skipped and traversed list the
\* bots of the current community that were skipped after the retries and
\* whose traversal returned; skips counts the skipped bots of the run.
NIdle ==
    [pc |-> "idle", i |-> 0, ngroups |-> 0, nb |-> 0, b |-> 0,
     groupIds |-> {}, files |-> <<>>, outcome |-> "none",
     skipped |-> <<>>, traversed |-> <<>>, skips |-> 0]

\* An error that nothing catches leaves parseNewSubsMode.
NRaised(rec) == [rec EXCEPT !.pc = "done", !.outcome = "raised"]

\* for (let i = 0; i < groups.length; i++)
NGroupLoopHead(rec) ==
    IF rec.i <= rec.ngroups
    THEN [rec EXCEPT !.pc = "group"]
    ELSE [rec EXCEPT !.pc = "done", !.outcome = "returned"]

\* An artifact only for a community with a traversed bot.
NAfterBotsIfTraversed(rec) ==
    NGroupLoopHead([rec EXCEPT
        !.files = IF rec.traversed = <<>> THEN @
                  ELSE Append(@, [group |-> rec.i, ids |-> rec.groupIds]),
        !.i = @ + 1])

\* writeIdsFile(Array.from(groupIds), ...), openGroupsPage, i++
NAfterBots(rec) ==
    NGroupLoopHead([rec EXCEPT
        !.files = Append(@, [group |-> rec.i, ids |-> rec.groupIds]),
        !.i = @ + 1])

\* for (let b = 0; b < activeBotNames.length; b++)
NBotLoopHead(rec) ==
    IF rec.b <= rec.nb THEN [rec EXCEPT !.pc = "bot"] ELSE NAfterBots(rec)

\* if (!activeBotNames || activeBotNames.length === 0) { ...; continue; }
\* const groupIds = new Set<string>();
NWriteWhenNoBots(rec, nb) ==
    NBotLoopHead([rec EXCEPT !.nb = nb, !.b = 1, !.groupIds = {},
                             !.skipped = <<>>, !.traversed = <<>>])
NAfterEnumeration(rec, nb) ==
    IF nb = 0
    THEN NGroupLoopHead([rec EXCEPT !.nb = 0, !.i = @ + 1,
                                    !.skipped = <<>>, !.traversed = <<>>])
    ELSE NBotLoopHead([rec EXCEPT !.nb = nb, !.b = 1, !.groupIds = {},
                                  !.skipped = <<>>, !.traversed = <<>>])

\* if (!loaded) { ...; continue; }
NAbortWhenNotLoaded(rec) == NRaised(rec)
NAfterNotLoaded(rec) ==
    NBotLoopHead([rec EXCEPT !.skipped = Append(@, rec.b),
                             !.skips = @ + 1, !.b = @ + 1])

\* ids.forEach(id => groupIds.add(id))
NLastBotOnly(rec, ids) ==
    NBotLoopHead([rec EXCEPT !.groupIds = ids,
                             !.traversed = Append(@, rec.b),
                             !.b = @ + 1])
NAfterCollected(rec, ids) ==
    NBotLoopHead([rec EXCEPT !.groupIds = @ \cup ids,
                             !.traversed = Append(@, rec.b),
                             !.b = @ + 1])

\* The communities were enumerated: the loop over them starts.
NewSubsCall(ngroups) ==
    NGroupLoopHead([NIdle EXCEPT !.i = 1, !.ngroups = ngroups])

\* Only differences of Date.now() are ever used, and between two calls of
\* the mode handler no timestamp is held: time is counted from there again.
Epoch == 0

SetupOutcomes == {"enumerated", "error"}

\* One community up to the enumeration of its active bots: the switch, the
\* contacts page, the filter, the dates, the bot dropdown.  A click or a
\* wait that rejects, a filter option that is missing or a dropdown that
\* does not open raise.
NGroup ==
    /\ n.pc = "group"
    /\ \E o \in SetupOutcomes, nb \in 0..MaxBots :
         /\ o = "error" => (env.mayThrow /\ nb = 0)
         /\ n' = IF o = "error" THEN NRaised(n) ELSE NAfterEnumeration(n, nb)
    /\ UNCHANGED <<now, env, w, r, userIds, c, k, cfg, g, ls, p, sel>>

SelectOutcomes == {"selected", "error"}

\* One bot up to the call of clickShowAndWaitWithRetries: the dropdown is
\* opened (ensureSelect2Open raises when it cannot be), the bot and the
\* start step are clicked (failures swallowed).
NBot ==
    /\ n.pc = "bot"
    /\ \E o \in SelectOutcomes :
         /\ o = "error" => env.mayThrow
         /\ IF o = "error"
            THEN n' = NRaised(n) /\ r' = r
            ELSE /\ n' = [n EXCEPT !.pc = "show"]
                 /\ r' = ClickShowCall(NewSubsRetries, cfg.newSubsWait,
                                       NewSubsMinStable, FALSE, 1,
                                       cfg.newSubsPost, now)
    /\ UNCHANGED <<now, env, w, userIds, c, k, cfg, g, ls, p, sel>>

\* clickShowAndWaitWithRetries has returned or raised.
NShow ==
    /\ n.pc = "show"
    /\ r.pc = "done"
    /\ n' = CASE r.outcome = "raised" -> NRaised(n)
              [] r.outcome = "false" -> NAfterNotLoaded(n)
              [] r.outcome = "true" -> [n EXCEPT !.pc = "collect"]
    /\ r' = RIdle
    /\ now' = Epoch
    /\ UNCHANGED <<env, w, userIds, c, k, cfg, g, ls, p, sel>>

\* collectAllContactIds has returned or raised.
NCollected ==
    /\ n.pc = "collect"
    /\ c.pc = "done"
    /\ n' = IF c.outcome = "raised" THEN NRaised(n)
            ELSE NAfterCollected(n, c.result)
    /\ c' = CIdle
    /\ now' = Epoch
    /\ UNCHANGED <<env, w, r, userIds, k, cfg, g, ls, p, sel>>

(***************************************************************************)
(* parseGroupsMode (both variants)                                         *)
(***************************************************************************)

Elems(seq) == {seq[x] : x \in 1..Len(seq)}

\* The sequences over `keys` of at most maxLen elements.
Lists(maxLen, keys) == UNION {[1..len -> keys] : len \in 0..maxLen}

\* const id = m?.[1] || ''
NoKey == ""
Keys == {"A", "B"}

\* anchors.forEach(a => { if (!id || seen.has(id)) return; seen.add(id);
\* items.push({ id, name }) }): anchors holds the id of every anchor.
RECURSIVE DedupeById(_, _)
DedupeById(anchors, items) ==
    IF anchors = <<>> THEN items
    ELSE LET id == Head(anchors)
         IN DedupeById(Tail(anchors),
                       IF id = NoKey \/ id \in Elems(items) THEN items
                       ELSE Append(items, id))

\* anchors is the markup of the /groups page, groups the enumeration, i the
\* loop index (from 1), files the artifacts written so far: the label's
\* community, the ids written, and the ids of the pages the traversal
\* extracted.
GIdle ==
    [pc |-> "idle", anchors |-> <<>>, groups |-> <<>>, i |-> 0,
     files |-> <<>>, outcome |-> "none"]

GroupsCall(anchors) == [GIdle EXCEPT !.pc = "enumerate", !.anchors = anchors]

\* An error that nothing catches leaves parseGroupsMode.
GRaised(rec) == [rec EXCEPT !.pc = "done", !.outcome = "raised"]

\* The loop leaving out the last community.
GLoopHeadExclusive(rec) ==
    IF rec.i < Len(rec.groups)
    THEN [rec EXCEPT !.pc = "switch"]
    ELSE [rec EXCEPT !.pc = "done", !.outcome = "returned"]

\* for (let i = 0; i < groups.length; i++)
GLoopHead(rec) ==
    IF rec.i <= Len(rec.groups)
    THEN [rec EXCEPT !.pc = "switch"]
    ELSE [rec EXCEPT !.pc = "done", !.outcome = "returned"]

GAfterEnumerate(rec) ==
    GLoopHead([rec EXCEPT !.groups = DedupeById(rec.anchors, <<>>), !.i = 1])

EvaluateOutcomes == {"ok", "error"}

\* page.evaluate over the anchors of the /groups page.
GEnumerate ==
    /\ g.pc = "enumerate"
    /\ \E o \in EvaluateOutcomes :
         /\ o = "error" => env.mayThrow
         /\ g' = IF o = "ok" THEN GAfterEnumerate(g) ELSE GRaised(g)
    /\ UNCHANGED <<now, env, w, r, userIds, c, k, cfg, n, ls, p, sel>>

SwitchOutcomes == {"opened", "error"}

\* One community up to the call of collectAllContactIds: the switch control
\* is clicked (or the switch invoked by key), the settle delay, the contacts
\* page.  The click and the evaluate are not caught.
GSwitch ==
    /\ g.pc = "switch"
    /\ \E o \in SwitchOutcomes :
         /\ o = "error" => env.mayThrow
         /\ g' = IF o = "opened" THEN [g EXCEPT !.pc = "collect"] ELSE GRaised(g)
    /\ UNCHANGED <<now, env, w, r, userIds, c, k, cfg, n, ls, p, sel>>

\* writeIdsFile(ids, `group_...`)
GWrittenWithEarlier(rec, ids, extracted) ==
    [rec EXCEPT !.files =
        Append(@, [key |-> rec.groups[rec.i],
                   ids |-> ids \cup UNION {rec.files[x].ids : x \in 1..Len(rec.files)},
                   extracted |-> extracted])]
GWritten(rec, ids, extracted) ==
    [rec EXCEPT !.files = Append(@, [key |-> rec.groups[rec.i], ids |-> ids,
                                     extracted |-> extracted])]

\* The loop going on two communities further.
GAfterCollectedSkipping(rec, ids, extracted, back) ==
    IF back
    THEN GLoopHead([GWritten(rec, ids, extracted) EXCEPT !.i = @ + 2])
    ELSE GRaised(GWritten(rec, ids, extracted))

\* The artifact, the way back to /groups (its goto is not caught in
\* bothunter-vk-simple.ts) and i++.
GAfterCollected(rec, ids, extracted, back) ==
    IF back
    THEN GLoopHead([GWritten(rec, ids, extracted) EXCEPT !.i = @ + 1])
    ELSE GRaised(GWritten(rec, ids, extracted))

\* The handler going on to its next community without awaiting the
\* traversal.
GCollectedUnawaited ==
    /\ g.pc = "collect"
    /\ c.pc # "idle"
    /\ \E back \in BOOLEAN :
         /\ ~back => (c.outcome = "returned" /\ cfg.variant = "simple"
                        /\ env.mayThrow)
         /\ g' = IF c.outcome = "raised" THEN GRaised(g)
                 ELSE GAfterCollected(g, c.result, UNION Elems(c.pages), back)
    /\ c' = CIdle
    /\ now' = Epoch
    /\ UNCHANGED <<env, w, r, userIds, k, cfg, n, ls, p, sel>>

\* collectAllContactIds has returned or raised.
GCollected ==
    /\ g.pc = "collect"
    /\ c.pc = "done"
    /\ \E back \in BOOLEAN :
         /\ ~back => (c.outcome = "returned" /\ cfg.variant = "simple"
                        /\ env.mayThrow)
         /\ g' = IF c.outcome = "raised" THEN GRaised(g)
                 ELSE GAfterCollected(g, c.result, UNION Elems(c.pages), back)
    /\ c' = CIdle
    /\ now' = Epoch
    /\ UNCHANGED <<env, w, r, userIds, k, cfg, n, ls, p, sel>>

(***************************************************************************)
(* parseListsMode                                                          *)
(***************************************************************************)

\* Labels and keywords are sequences of UTF-16 code units.
Space == 32
Upper == (65..90) \cup (1040..1071)
CaseOffset == 32

\* String.prototype.toLowerCase on Latin and Russian letters.
SameCase(str) == str
ToLowerCase(str) ==
    [x \in 1..Len(str) |->
        IF str[x] \in Upper THEN str[x] + CaseOffset ELSE str[x]]

\* String.prototype.includes
Includes(str, f) ==
    \E off \in 0..(Len(str) - Len(f)) : \A j \in 1..Len(f) : str[off + j] = f[j]

\* ['в работе', 'отказ', 'одобрен', 'клик по офферу', 'клик по оффер', 'клик']
DefaultKeywords ==
    << <<1074, Space, 1088, 1072, 1073, 1086, 1090, 1077>>,
       <<1086, 1090, 1082, 1072, 1079>>,
       <<1086, 1076, 1086, 1073, 1088, 1077, 1085>>,
       <<1082, 1083, 1080, 1082, Space, 1087, 1086, Space, 1086, 1092, 1092,
         1077, 1088, 1091>>,
       <<1082, 1083, 1080, 1082, Space, 1087, 1086, Space, 1086, 1092, 1092,
         1077, 1088>>,
       <<1082, 1083, 1080, 1082>> >>

\* The configured filters alone, with no default.
FiltersAsConfigured(listFilters) ==
    [x \in 1..Len(listFilters) |-> ToLowerCase(listFilters[x])]

\* this.config.listFilters && this.config.listFilters.length > 0
\*     ? this.config.listFilters.map(s => s.toLowerCase()) : defaultKeywords
FiltersOf(listFilters) ==
    IF Len(listFilters) > 0
    THEN [x \in 1..Len(listFilters) |-> ToLowerCase(listFilters[x])]
    ELSE DefaultKeywords

\* if (name && href) items.push({ name, href })
Items(anchors) ==
    SelectSeq(anchors, LAMBDA a : a.name # <<>> /\ a.href # NoKey)

\* items.filter(it => { const key = it.name.toLowerCase();
\*   if (seen[key]) return false; seen[key] = true; return true; })
\* (no label of the model is the name of a property of Object.prototype)
NoDedupe(items, seen, out) == items
RECURSIVE DedupeByName(_, _, _)
DedupeByName(items, seen, out) ==
    IF items = <<>> THEN out
    ELSE LET key == ToLowerCase(Head(items).name)
         IN IF key \in seen
            THEN DedupeByName(Tail(items), seen, out)
            ELSE DedupeByName(Tail(items), seen \cup {key},
                              Append(out, Head(items)))

\* allLists.filter(l => filters.some(f => l.name.toLowerCase().includes(f)))
Matching(allLists, filters) ==
    SelectSeq(allLists, LAMBDA l :
        \E x \in 1..Len(filters) : Includes(ToLowerCase(l.name), filters[x]))

\* if (targetLists.length === 0) targetLists = allLists
MatchingOnly(allLists, filters) == Matching(allLists, filters)
TargetLists(allLists, filters) ==
    IF Len(Matching(allLists, filters)) = 0 THEN allLists
    ELSE Matching(allLists, filters)

\* listFilters is this.config.listFilters, anchors the markup of the
\* /contacts/lists page (the label and the nav path of every anchor), i the
\* loop index (from 1), opened the targets whose traversal was started,
\* files the artifacts written so far.
LIdle ==
    [pc |-> "idle", listFilters |-> <<>>, anchors |-> <<>>,
     allLists |-> <<>>, targetLists |-> <<>>, i |-> 0, opened |-> <<>>,
     files |-> <<>>, outcome |-> "none"]

ListsCall(listFilters, anchors) ==
    [LIdle EXCEPT !.pc = "enumerate", !.listFilters = listFilters,
                  !.anchors = anchors]

\* An error that nothing catches leaves parseListsMode.
LRaised(rec) == [rec EXCEPT !.pc = "done", !.outcome = "raised"]

\* for (let i = 0; i < targetLists.length; i++)
LLoopHead(rec) ==
    IF rec.i <= Len(rec.targetLists)
    THEN [rec EXCEPT !.pc = "open"]
    ELSE [rec EXCEPT !.pc = "done", !.outcome = "returned"]

LAfterEnumerate(rec) ==
    LET allLists == DedupeByName(Items(rec.anchors), {}, <<>>)
    IN LLoopHead([rec EXCEPT
           !.allLists = allLists,
           !.targetLists = TargetLists(allLists, FiltersOf(rec.listFilters)),
           !.i = 1])

\* goto /contacts/lists (not caught), page.evaluate over the anchors, the
\* filter and its fallback.
LEnumerate ==
    /\ ls.pc = "enumerate"
    /\ \E o \in EvaluateOutcomes :
         /\ o = "error" => env.mayThrow
         /\ ls' = IF o = "ok" THEN LAfterEnumerate(ls) ELSE LRaised(ls)
    /\ UNCHANGED <<now, env, w, r, userIds, c, k, cfg, n, g, p, sel>>

\* const target = allLists.find(l => l.name === name)
Find(allLists, name) ==
    IF \E x \in 1..Len(allLists) : allLists[x].name = name
    THEN allLists[CHOOSE x \in 1..Len(allLists) :
                    /\ allLists[x].name = name
                    /\ \A y \in 1..(x - 1) : allLists[y].name # name]
    ELSE [name |-> <<>>, href |-> NoKey]

\* if (!target) { ...; continue; }
LAfterNoTarget(rec) == LLoopHead([rec EXCEPT !.i = @ + 1])

OpenOutcomes == {"opened", "error"}

\* The navigation failed: nothing catches what evaluate or waitForLoadState
\* reject with.
LAfterOpenError(rec) == LRaised(rec)

\* One segment up to the call of collectAllContactIds: the lookup of its
\* link, nav(href), waitForLoadState('networkidle') (not caught), the
\* pause, and the wait for the pagination (caught).
LOpen ==
    /\ ls.pc = "open"
    /\ \E o \in OpenOutcomes :
         /\ o = "error" => env.mayThrow
         /\ ls' = IF Find(ls.allLists, ls.targetLists[ls.i].name).href = NoKey
                  THEN LAfterNoTarget(ls)
                  ELSE IF o = "error" THEN LAfterOpenError(ls)
                  ELSE [ls EXCEPT !.pc = "collect",
                                  !.opened = Append(@, ls.targetLists[ls.i].name)]
    /\ UNCHANGED <<now, env, w, r, userIds, c, k, cfg, n, g, p, sel>>

\* writeIdsFile(ids, `list_${name}`), the way back to /contacts/lists (its
\* goto is not caught) and i++.
LAfterCollected(rec, ids, back) ==
    LET written == [rec EXCEPT !.files =
                        Append(@, [name |-> rec.targetLists[rec.i].name,
                                   ids |-> ids])]
    IN IF back THEN LLoopHead([written EXCEPT !.i = @ + 1])
       ELSE LRaised(written)

\* collectAllContactIds has returned or raised.
LCollected ==
    /\ ls.pc = "collect"
    /\ c.pc = "done"
    /\ \E back \in BOOLEAN :
         /\ ~back => (c.outcome = "returned" /\ env.mayThrow)
         /\ ls' = IF c.outcome = "raised" THEN LRaised(ls)
                  ELSE LAfterCollected(ls, c.result, back)
    /\ c' = CIdle
    /\ now' = Epoch
    /\ UNCHANGED <<env, w, r, userIds, k, cfg, n, g, p, sel>>

\* A page that answers at once and a timer that is exact: one sample a tick.
Regular(counts, mayThrow) ==
    [steps |-> {PollInterval}, lat |-> {0}, counts |-> counts,
     mayThrow |-> mayThrow, history |-> TRUE, pace |-> {PaceMin},
     contents |-> FALSE]

\* Awaits that may take a tick longer.
Jittery(counts, mayThrow) ==
    [steps |-> {PollInterval, PollInterval + 1}, lat |-> {0, 1},
     counts |-> counts, mayThrow |-> mayThrow, history |-> TRUE,
     pace |-> {PaceMin}, contents |-> FALSE]

(***************************************************************************)
(* parse and close                                                         *)
(***************************************************************************)

\* No run: this.page and this.browser are null.  `body` is how the try
\* block ended, `saves` the places saveSession was called from, `error` the
\* error the promise of parse is rejected with.
PIdle ==
    [pc |-> "idle", mode |-> "contacts", page |-> FALSE, browser |-> FALSE,
     body |-> "none", saves |-> <<>>, closed |-> FALSE, outcome |-> "none",
     error |-> "none"]

\* ensureSelect2Open is not running.  `opens` counts the open actions made,
\* `seen` keeps what each check of the dropdown found, `cause` why it raised.
DIdle ==
    [pc |-> "idle", attempt |-> 1, maxAttempts |-> 0, opens |-> 0,
     seen |-> <<>>, outcome |-> "none", cause |-> "none"]

\* Nothing is being traversed.
Quiet ==
    /\ userIds = {} /\ c = CIdle /\ k = KIdle /\ cfg = NoConfig /\ n = NIdle
    /\ g = GIdle /\ ls = LIdle /\ p = PIdle /\ sel = DIdle

(***************************************************************************)
(* Specifications                                                          *)
(***************************************************************************)

\* The poller alone, under every timing of the bounded environment.
Init ==
    /\ now = 0
    /\ env \in {Regular({0, 1, 2}, TRUE), Jittery({0, 1, 2}, TRUE)}
    /\ \E mw \in 0..MaxWait, ms \in 0..MaxStable, sh \in BOOLEAN, mc \in 0..MaxMinCount :
         w = WaitForAnyUsersCall(mw, ms, sh, mc, 0)
    /\ r = RIdle
    /\ Quiet

Next == WSample \/ WSleep

Spec == Init /\ [][Next]_vars

\* The poller alone, sampled exactly once a tick by a page that never throws:
\* the setting of the probe-sequence scenario.
InitTick ==
    /\ now = 0
    /\ env = Regular({0, 3, 5}, FALSE)
    /\ \E ms \in 2..TickStable :
         w = WaitForAnyUsersCall(TickWait, ms, FALSE, 1, 0)
    /\ r = RIdle
    /\ Quiet

SpecTick == InitTick /\ [][Next]_vars

\* The retry controller with the poller it calls.
InitRetry ==
    /\ now = 0
    /\ env \in {Regular({0, 1}, TRUE), Jittery({0, 1}, TRUE)}
    /\ w = WIdle
    /\ \E tries \in 0..MaxRetries, ms \in 0..1, sh \in BOOLEAN, pd \in 1..MaxPostDelay :
         r = ClickShowCall(tries, RetryWait, ms, sh, 1, pd, 0)
    /\ Quiet

NextRetry == RTrigger \/ RCheck \/ WSample \/ WSleep

SpecRetry == InitRetry /\ [][NextRetry]_vars

\* A page whose every await takes two seconds.
Slow(mayThrow) ==
    [steps |-> {4}, lat |-> {0}, counts |-> {0, 1}, mayThrow |-> mayThrow,
     history |-> FALSE, pace |-> {PaceMin}, contents |-> FALSE]

\* One traversal, started with whatever an earlier traversal left in the
\* accumulator.
InitCollect ==
    /\ now = 0
    /\ env = Slow(TRUE)
    /\ w = WIdle /\ r = RIdle /\ c = CIdle /\ k = KIdle /\ n = NIdle
    /\ g = GIdle /\ ls = LIdle /\ p = PIdle /\ sel = DIdle
    /\ userIds \in SUBSET Ids
    /\ cfg \in {x \in [maxPages : -1..MaxCeiling,
                        seekWait : {0, DefaultSeekWait},
                        seekNaN : {FALSE}, pagesNaN : BOOLEAN,
                        variant : {"full", "simple"}, newSubsWait : {0},
                        newSubsPost : {0}] : x.pagesNaN => x.maxPages = 0}

NextCollect ==
    CStart \/ CFirstReady \/ CExtract \/ CAdvance \/ CSettle \/ CPace
        \/ KSample \/ KSleep
        \/ WSample \/ WSleep \/ SStart \/ SIterate

SpecCollect == InitCollect /\ [][NextCollect]_vars

\* A page whose every await takes three seconds.
Slower(mayThrow) ==
    [steps |-> {6}, lat |-> {0}, counts |-> {0, 1}, mayThrow |-> mayThrow,
     history |-> FALSE, pace |-> {PaceMin}, contents |-> FALSE]

\* The bots-and-steps mode from the enumeration of the communities on, with
\* a ceiling of one page, waits shortened by the environment variables and
\* awaits that take six seconds.
InitNewSubs ==
    /\ now = 0
    /\ env = [Slower(TRUE) EXCEPT !.steps = {2 * NewSubsMinStable}]
    /\ w = WIdle /\ r = RIdle /\ c = CIdle /\ k = KIdle
    /\ g = GIdle /\ ls = LIdle /\ p = PIdle /\ sel = DIdle
    /\ userIds = {}
    /\ cfg = [maxPages |-> 1, seekWait |-> PollInterval,
              seekNaN |-> FALSE, pagesNaN |-> FALSE,
              variant |-> "full",
              newSubsWait |-> 3 * NewSubsMinStable, newSubsPost |-> 1]
    /\ \E ng \in 0..MaxGroups : n = NewSubsCall(ng)

NextNewSubs ==
    NGroup \/ NBot \/ NShow \/ NCollected \/ RTrigger \/ RCheck
        \/ CStart \/ CFirstReady \/ CExtract \/ CAdvance \/ CSettle \/ CPace
        \/ KSample \/ KSleep
        \/ WSample \/ WSleep

SpecNewSubs == InitNewSubs /\ [][NextNewSubs]_vars

\* The all-communities mode in both variants, with a ceiling of two pages.
InitGroups ==
    /\ now = 0
    /\ env = Slower(TRUE)
    /\ w = WIdle /\ r = RIdle /\ c = CIdle /\ k = KIdle /\ n = NIdle
    /\ ls = LIdle /\ p = PIdle /\ sel = DIdle
    /\ userIds = {}
    /\ cfg \in [maxPages : {2}, seekWait : {DefaultSeekWait},
                seekNaN : {FALSE}, pagesNaN : {FALSE},
                variant : {"full", "simple"}, newSubsWait : {0},
                newSubsPost : {0}]
    /\ \E anchors \in Lists(MaxCommunities, Keys) : g = GroupsCall(anchors)

NextGroups ==
    GEnumerate \/ GSwitch \/ GCollected
        \/ CStart \/ CFirstReady \/ CExtract \/ CAdvance \/ CSettle \/ CPace
        \/ KSample \/ KSleep
        \/ WSample \/ WSleep \/ SStart \/ SIterate

SpecGroups == InitGroups /\ [][NextGroups]_vars

\* Labels of segments: "В работе", "Отказ", "отказ", "Случайное".
VRabote == <<1042, Space, 1088, 1072, 1073, 1086, 1090, 1077>>
Otkaz == <<1054, 1090, 1082, 1072, 1079>>
OtkazLower == <<1086, 1090, 1082, 1072, 1079>>
Sluchainoe == <<1057, 1083, 1091, 1095, 1072, 1081, 1085, 1086, 1077>>
NoLabel == <<>>

\* Anchors of the /contacts/lists page: labels that differ in case only,
\* paths that repeat, an anchor without label and one without path.
SegmentAnchors ==
    {[name |-> VRabote, href |-> "/contacts/lists/1/1"],
     [name |-> Otkaz, href |-> "/contacts/lists/1/1"],
     [name |-> OtkazLower, href |-> "/contacts/lists/1/2"],
     [name |-> Sluchainoe, href |-> "/contacts/lists/1/3"],
     [name |-> NoLabel, href |-> "/contacts/lists/1/4"],
     [name |-> Sluchainoe, href |-> NoKey]}

\* Configured keywords: none, "отказ", "ОТКАЗ", "нет такого", "Отказ" and
\* "работ".
NoFilters == <<>>
OtkazUpper == <<1054, 1058, 1050, 1040, 1047>>
NetTakogo == <<1085, 1077, 1090, Space, 1090, 1072, 1082, 1086, 1075, 1086>>
Rabot == <<1088, 1072, 1073, 1086, 1090>>
FilterSets ==
    {NoFilters, <<OtkazLower>>, <<OtkazUpper>>, <<NetTakogo>>, <<Otkaz, Rabot>>}

\* The two enumerations alone, on every markup of the bounded pages: the
\* communities with one list of segments, the segments with one list of
\* communities.
InitEnum ==
    /\ now = 0
    /\ env = Regular({0}, TRUE)
    /\ w = WIdle /\ r = RIdle /\ c = CIdle /\ k = KIdle /\ n = NIdle
    /\ userIds = {} /\ cfg = NoConfig /\ p = PIdle /\ sel = DIdle
    /\ \/ /\ \E anchors \in Lists(MaxAnchors, Keys \cup {NoKey}) :
                 g = GroupsCall(anchors)
          /\ \E f \in FilterSets :
                 ls = ListsCall(f, <<[name |-> Otkaz, href |-> "/contacts/lists/1/1"]>>)
       \/ /\ g = GroupsCall(<<"B", NoKey, "A", "B">>)
          /\ \E f \in FilterSets,
                anchors \in Lists(MaxAnchors, SegmentAnchors) :
                 ls = ListsCall(f, anchors)

NextEnum == GEnumerate \/ LEnumerate

SpecEnum == InitEnum /\ [][NextEnum]_vars

\* The segments mode on the page of the three segments and one with a
\* repeated label, with a ceiling of one page.
InitLists ==
    /\ now = 0
    /\ env = Slower(TRUE)
    /\ w = WIdle /\ r = RIdle /\ c = CIdle /\ k = KIdle /\ n = NIdle
    /\ g = GIdle /\ p = PIdle /\ sel = DIdle
    /\ userIds = {}
    /\ cfg \in [maxPages : {1}, seekWait : {DefaultSeekWait},
                seekNaN : {FALSE}, pagesNaN : {FALSE},
                variant : {"full", "simple"}, newSubsWait : {0},
                newSubsPost : {0}]
    /\ \E f \in FilterSets,
          anchors \in {a \in Lists(MaxSegments, SegmentAnchors) :
                          \A x \in 1..Len(a) : a[x].name # NoLabel /\ a[x].href # NoKey} :
         ls = ListsCall(f, anchors)

NextLists ==
    LEnumerate \/ LOpen \/ LCollected
        \/ CStart \/ CFirstReady \/ CExtract \/ CAdvance \/ CSettle \/ CPace
        \/ KSample \/ KSleep
        \/ WSample \/ WSleep \/ SStart \/ SIterate

SpecLists == InitLists /\ [][NextLists]_vars

\* The poller under its scheduling: an await that is pending does resolve.
FairSpec == Spec /\ WF_vars(Next)

(***************************************************************************)
(* Properties of waitForAnyUsers                                           *)
(***************************************************************************)

\* The samples whose count probe returned, in order.
OkSamples(log) == SelectSeq(log, LAMBDA e : e.pr = "ok")

\* The time of the last change of value seen at sample i: the first sample
\* of the run of equal values that sample i ends.
RECURSIVE RunStartAt(_, _)
RunStartAt(s, i) ==
    IF i = 1 \/ s[i - 1].v # s[i].v THEN s[i].t ELSE RunStartAt(s, i - 1)

\* The success condition of the contract at sample i.
ReadyAt(s, i, minCount, minStable) ==
    /\ s[i].v >= minCount
    /\ s[i].t - RunStartAt(s, i) >= minStable

Returned(b) == w.pc = "done" /\ w.result = b

\* C1: with the shortcut disabled the poller returns true at the first
\* sample at which count >= minAcceptableValue and the time since the last
\* change of value >= minStableWindow, and at no sample where either fails.
C1_SucceedsAtFirstReadySample ==
    ~w.shortcut =>
        LET ok == OkSamples(w.log)
        IN /\ \A i \in 1..Len(ok) :
                ReadyAt(ok, i, w.minCount, w.minStable)
                    <=> (i = Len(ok) /\ Returned(TRUE))
           /\ Returned(TRUE) => Len(w.log) > 0 /\ w.log[Len(w.log)].pr = "ok"

\* A success after samples that were not ready: too small, then too fresh.
C1_Witness ==
    /\ ~w.shortcut /\ Returned(TRUE)
    /\ w.minCount > 0 /\ w.minStable > 0
    /\ LET ok == OkSamples(w.log)
       IN /\ Len(ok) >= 3
          /\ ok[1].v < w.minCount
          /\ ok[Len(ok) - 1].v >= w.minCount

C2Seq == <<0, 0, 3, 3, 3, 5, 5, 5, 5>>

\* The samples so far are the first ones of C2Seq, taken at ticks 0, 1, 2, ...
C2Prefix(m) ==
    /\ ~w.shortcut /\ w.minCount = 1
    /\ Len(w.log) = m
    /\ \A i \in 1..m : w.log[i].pr = "ok" /\ w.log[i].v = C2Seq[i] /\ w.log[i].t = i - 1

\* C2 as stated: with a window of 3 ticks the poller succeeds at the third
\* sample of value 3, the 5th sample.
C2_Original ==
    (w.minStable = 3 /\ C2Prefix(5)) => Returned(TRUE)

\* C2 amended: with a window of 3 ticks the third 3 comes 2 ticks after the
\* change, so the poller goes on and succeeds exactly at the 9th sample, the
\* fourth 5; with a window of 2 ticks it succeeds exactly at the third 3.
C2_SucceedsAtNinthSample ==
    /\ \A m \in 0..Len(C2Seq) :
         (w.minStable = 3 /\ C2Prefix(m)) => (Returned(TRUE) <=> m = 9)
    /\ \A m \in 0..Len(C2Seq) :
         (w.minStable = 2 /\ C2Prefix(m)) => (Returned(TRUE) <=> m = 5)
    /\ (w.minStable = 2 /\ w.minCount = 1 /\ Len(w.log) > 5) => ~C2Prefix(Len(w.log))

C2_Witness == w.minStable = 3 /\ C2Prefix(9) /\ Returned(TRUE)

\* The last entry of the history, when the step just taken was a sample.
Sampled == w.pc = "sample" /\ Len(w'.log) = Len(w.log) + 1
NewSample == w'.log[Len(w'.log)]

\* C3: a sample whose value differs from the recorded one, up or down,
\* restarts the stability clock at that sample; an equal one leaves it; and
\* a count success comes a full window after the last change.
C3_AnyChangeResetsClock ==
    [][(Sampled /\ NewSample.pr = "ok") =>
          /\ (NewSample.v # w.lastCount) =>
                (w'.lastChangeTs = NewSample.t /\ w'.lastCount = NewSample.v)
          /\ (NewSample.v = w.lastCount) => (w'.lastChangeTs = w.lastChangeTs)
          /\ (w'.pc = "done" /\ w'.result) =>
                LET ok == OkSamples(w'.log)
                IN NewSample.t - RunStartAt(ok, Len(ok)) >= w.minStable]_vars

\* A regression and a recovery (a, lower, a again), then a success.
C3_Witness ==
    /\ ~w.shortcut /\ Returned(TRUE) /\ w.minStable > 0
    /\ LET ok == OkSamples(w.log)
       IN \E i \in 1..Len(ok), j \in 1..Len(ok), m \in 1..Len(ok) :
            /\ i < j /\ j < m
            /\ ok[j].v < ok[i].v /\ ok[m].v = ok[i].v
            /\ ok[Len(ok)].v = ok[i].v

\* C4: with the shortcut enabled the poller returns true at the first sample
\* at which the pagination region is present, whatever the counts and the
\* stability window.
C4_ShortcutReturnsAtOnce ==
    \A i \in 1..Len(w.log) :
        w.log[i].sc = "present" =>
            /\ w.shortcut
            /\ i = Len(w.log)
            /\ Returned(TRUE)
            /\ w.log[i].pr = "none"

\* The region appears at a later sample, no count was ever acceptable.
C4_Witness ==
    /\ w.shortcut /\ Returned(TRUE)
    /\ w.minCount > 0 /\ w.minStable > 0
    /\ Len(w.log) >= 2
    /\ w.log[Len(w.log)].sc = "present"
    /\ \A i \in 1..(Len(w.log) - 1) : w.log[i].pr = "ok" /\ w.log[i].v < w.minCount

\* C5: the poller returns false once maxWait has elapsed at a loop test
\* without a success; it takes no sample after that and it always returns.
C5_TimeoutReturnsFalse ==
    /\ [](w.pc = "sample" => now - w.start < w.maxWait)
    /\ [](Returned(FALSE) =>
            /\ now - w.start >= w.maxWait
            /\ \A i \in 1..Len(w.log) : w.log[i].sc # "present"
            /\ LET ok == OkSamples(w.log)
               IN \A i \in 1..Len(ok) : ~ReadyAt(ok, i, w.minCount, w.minStable))
    /\ <>(w.pc = "done")

C5_Witness ==
    /\ Returned(FALSE) /\ w.maxWait > 0
    /\ Len(OkSamples(w.log)) >= 2

\* C6: a sample whose probe or pagination check throws is skipped: the
\* poller sleeps and samples again, and a false after it comes by timeout.
C6_ThrowSkipsSample ==
    [][(Sampled /\ (NewSample.pr = "throw" \/ NewSample.sc = "throw")) =>
          /\ w'.pc = "sleep"
          /\ \A d \in env.steps :
               LET nxt == WLoopHead(w', now' + d)
               IN nxt.pc = "sample" \/ (now' + d) - w.start >= w.maxWait]_vars

\* A success after a sample that threw.
C6_Witness ==
    /\ Returned(TRUE)
    /\ \E i \in 1..Len(w.log) : w.log[i].pr = "throw"
    /\ \E i \in 1..Len(w.log) : w.log[i].sc = "throw"

(***************************************************************************)
(* Properties of clickShowAndWaitWithRetries                               *)
(***************************************************************************)

\* C7: when every readiness check fails the controller clicks exactly
\* maxAttempts times, checks readiness exactly maxAttempts times and then
\* returns false.
C7_ExhaustedReturnsFalse ==
    /\ r.clicks <= r.retries /\ r.checks <= r.clicks /\ r.failed <= r.checks
    /\ (r.pc = "done" /\ r.outcome = "false") =>
          (r.clicks = r.retries /\ r.checks = r.retries /\ r.failed = r.retries)
    /\ (r.pc # "idle" /\ r.failed = r.retries) =>
          (r.pc = "done" /\ r.outcome = "false")
    /\ (r.pc = "done" /\ r.outcome # "raised" /\ r.failed = r.checks) =>
          r.outcome = "false"

C7_Witness ==
    /\ r.pc = "done" /\ r.outcome = "false"
    /\ r.retries >= 3 /\ r.failed = r.retries /\ r.clicks = r.retries

\* C8: when the readiness check first succeeds on attempt k <= maxAttempts
\* the controller sleeps postReadyDelay and returns true, having clicked
\* exactly k times: no click follows the success.
C8_SuccessStopsRetrying ==
    /\ [](r.outcome = "true" =>
            /\ r.pc = "done"
            /\ r.attempt <= r.retries
            /\ r.clicks = r.attempt /\ r.checks = r.attempt
            /\ r.failed = r.attempt - 1
            /\ r.doneTs - r.readyTs >= r.postDelay
            /\ now >= r.doneTs)
    /\ [][(r.pc = "check" /\ w.pc = "done" /\ w.result) =>
            /\ r'.pc = "done" /\ r'.outcome = "true"
            /\ r'.clicks = r.clicks /\ r'.attempt = r.attempt
            /\ now' - now >= r.postDelay]_vars
    /\ [][r.outcome = "true" => r'.clicks = r.clicks]_vars

C8_Witness ==
    /\ r.outcome = "true" /\ r.pc = "done"
    /\ r.attempt = 2 /\ r.retries > r.attempt /\ r.postDelay > 1

(***************************************************************************)
(* Properties of collectAllContactIds                                      *)
(***************************************************************************)

\* C10: a traversal makes at most pageCountCeiling + 1 loop iterations, and
\* is inside the loop only while currentPage <= ceiling, even when every
\* seek of the advance control reports it present and enabled.
C10_CeilingBoundsIterations ==
    c.pc # "idle" =>
        /\ c.iterations <= c.maxPages + 1
        /\ c.pc \in {"extract", "seek", "settle", "pace", "iterate"} =>
               c.currentPage <= c.maxPages
        /\ c.currentPage = (IF c.pc \in {"settle", "pace"} THEN c.advances
                            ELSE c.advances + 1)

\* Every seek found an enabled control and the ceiling ended the traversal.
C10_Witness ==
    /\ c.pc = "done" /\ c.outcome = "returned"
    /\ cfg.variant = "full"
    /\ c.maxPages >= 2 /\ c.maxPages <= MaxCeiling
    /\ c.iterations = c.maxPages /\ c.advances = c.iterations

(***************************************************************************)
(* Properties of parseNewSubsMode                                          *)
(***************************************************************************)


\* C9: when the retry controller returns false for a bot, the bot adds no
\* identifier, no traversal is run for it, and the run goes on with the next
\* bot of the community, or after its last bot with the community's
\* artifact and the next community.
C9_FailedBotIsSkipped ==
    [][(n.pc = "show" /\ r.pc = "done" /\ r.outcome = "false") =>
          /\ n'.groupIds = n.groupIds
          /\ n'.traversed = n.traversed /\ n'.skips = n.skips + 1
          /\ c' = CIdle /\ userIds' = userIds
          /\ n'.outcome # "raised"
          /\ IF n.b < n.nb
             THEN /\ n'.pc = "bot" /\ n'.b = n.b + 1 /\ n'.i = n.i
                  /\ n'.files = n.files
             ELSE /\ n'.files = Append(n.files, [group |-> n.i, ids |-> n.groupIds])
                  /\ n'.i = n.i + 1
                  /\ IF n.i < n.ngroups
                     THEN n'.pc = "group"
                     ELSE n'.pc = "done" /\ n'.outcome = "returned"]_vars

\* The first bot of the second community was skipped, its second bot was
\* traversed, and the run returned with both artifacts.
C9_Witness ==
    /\ n.pc = "done" /\ n.outcome = "returned"
    /\ n.skips = 1 /\ n.skipped = <<1>> /\ n.traversed = <<2>>
    /\ Len(n.files) = 2 /\ n.files[1].ids # {} /\ n.files[2].ids # {}

(***************************************************************************)
(* Properties of the accumulator and of parseGroupsMode                    *)
(***************************************************************************)

\* C11: from the start of a traversal to its first extraction the
\* accumulator is empty, whatever the previous target left in it, and after
\* the first extraction it holds the ids of the first page and nothing else.
C11_AccumulatorStartsEmpty ==
    /\ []((c.pc \in {"firstReady", "extract", "iterate"} /\ c.iterations = 0)
            => userIds = {})
    /\ [][(c.pc = "idle" /\ c'.pc # "idle") => userIds' = {}]_vars
    /\ [][(c.iterations = 0 /\ c'.iterations = 1 /\ c'.outcome # "raised")
            => userIds' = c'.pages[1]]_vars

\* The second community's traversal is about to extract its first page, the
\* first community's traversal having returned identifiers.
C11_Witness ==
    /\ cfg.variant = "full"
    /\ g.i = 2 /\ Len(g.files) = 1 /\ g.files[1].ids # {}
    /\ c.pc = "extract" /\ c.iterations = 0 /\ userIds = {}

\* C12: every artifact of the all-communities mode holds exactly the ids of
\* the pages extracted during its own community's traversal: the step that
\* writes it appends the union of that traversal's pages for the community
\* of the loop index and leaves the earlier artifacts as they are.
C12_ArtifactIsOwnTraversal ==
    /\ [](\A x \in 1..Len(g.files) :
            /\ g.files[x].ids = g.files[x].extracted
            /\ g.files[x].key = g.groups[x])
    /\ [][(g.pc = "collect" /\ c.pc = "done" /\ c.outcome = "returned") =>
            g'.files = Append(g.files, [key |-> g.groups[g.i],
                                        ids |-> UNION Elems(c.pages),
                                        extracted |-> UNION Elems(c.pages)])]_vars

\* Two communities were traversed; the second artifact lacks the identifier
\* that the first traversal left in the accumulator.
C12_Witness ==
    /\ cfg.variant = "full"
    /\ g.pc = "done" /\ g.outcome = "returned"
    /\ g.groups = <<"A", "B">>
    /\ Len(g.files) = 2 /\ g.files[1].ids = {1, 2} /\ g.files[2].ids = {2}

\* C13: during a traversal the accumulator is the union of the pages
\* extracted so far, one page per iteration that extracted, and the set
\* returned is the union of all of them.
C13_ResultIsUnionOfPages ==
    /\ c.pc # "idle" => userIds = UNION Elems(c.pages)
    /\ (c.pc = "done" /\ c.outcome = "returned") =>
          /\ c.result = UNION Elems(c.pages)
          /\ Len(c.pages) = c.iterations

\* Two pages with different identifiers were extracted and both returned.
C13_Witness ==
    /\ cfg.variant = "full"
    /\ c.pc = "done" /\ c.outcome = "returned"
    /\ c.pages = <<{1}, {2}>> /\ c.result = {1, 2}

(***************************************************************************)
(* Properties of the seek of the advance control                           *)
(***************************************************************************)

\* A seek of waitForNextPageButton ends without a control only once its
\* timeout has elapsed.
SeekEndsOnlyAtTimeout ==
    [][(k.pc # "done" /\ k'.pc = "done" /\ ~k'.found) =>
          now' - k.start >= k.timeout]_vars

\* C14: a sample that finds the advance control present but disabled does
\* not end the traversal, the engine polls again; a sample that finds it
\* enabled leads to the advance; the seek gives up only when its timeout
\* has elapsed.  Stated for collectAllContactIds of both files.
C14_Original ==
    /\ [][(k.pc = "sample" /\ k'.last = "disabled") => k'.pc = "sleep"]_vars
    /\ [][(k.pc = "sample" /\ k'.last = "enabled") =>
            (k'.pc = "done" /\ k'.found)]_vars
    /\ [][(c.pc = "seek" /\ k.pc = "done" /\ k.found) =>
            c'.advances = c.advances + 1]_vars
    /\ SeekEndsOnlyAtTimeout
    /\ [][(c.pc = "iterate" /\ c'.iterations = c.iterations + 1
             /\ c'.control = "disabled") => c'.pc # "done"]_vars

\* The part of C14 that is about waitForNextPageButton alone: a disabled
\* control is polled again, an enabled one is returned and clicked, and
\* null is returned only at the timeout.
SeekPollsWhileDisabled ==
    /\ [][(k.pc = "sample" /\ k'.last = "disabled") => k'.pc = "sleep"]_vars
    /\ [][(k.pc = "sample" /\ k'.last = "enabled") =>
            (k'.pc = "done" /\ k'.found)]_vars
    /\ [][(c.pc = "seek" /\ k.pc = "done" /\ k.found) =>
            c'.advances = c.advances + 1]_vars
    /\ SeekEndsOnlyAtTimeout

FirstAt(seq, v) ==
    CHOOSE x \in 1..Len(seq) : seq[x] = v /\ \A y \in 1..(x - 1) : seq[y] # v

\* out holds every value of inp once, ordered by first appearance in inp.
IsFirstSeenDedupe(out, inp) ==
    /\ \A x, y \in 1..Len(out) : x # y => out[x] # out[y]
    /\ Elems(out) = Elems(inp)
    /\ \A x, y \in 1..Len(out) :
          x < y => FirstAt(inp, out[x]) < FirstAt(inp, out[y])

HrefsOf(items) == [x \in 1..Len(items) |-> items[x].href]
LowerNamesOf(items) == [x \in 1..Len(items) |-> ToLowerCase(items[x].name)]

\* The communities are enumerated with each non-empty handler argument
\* once, in first-seen order.
CommunitiesDeduped ==
    g.i >= 1 =>
        IsFirstSeenDedupe(g.groups, SelectSeq(g.anchors, LAMBDA a : a # NoKey))

\* C16 as stated: the communities hold each handler argument once and the
\* segments each navigation path once, both in first-seen order.
C16_Original ==
    /\ CommunitiesDeduped
    /\ ls.i >= 1 =>
          IsFirstSeenDedupe(HrefsOf(ls.allLists), HrefsOf(Items(ls.anchors)))

\* C16: the communities hold each non-empty handler argument once, in
\* first-seen order; the segments hold each lower-cased label once, in
\* first-seen order, each with the path of the first anchor that carries
\* the label (anchors without label or path are left out).
C16_DedupedByIdAndByLabel ==
    /\ CommunitiesDeduped
    /\ ls.i >= 1 =>
          /\ IsFirstSeenDedupe(LowerNamesOf(ls.allLists),
                               LowerNamesOf(Items(ls.anchors)))
          /\ \A x \in 1..Len(ls.allLists) :
                ls.allLists[x] =
                    Items(ls.anchors)[FirstAt(LowerNamesOf(Items(ls.anchors)),
                                              ToLowerCase(ls.allLists[x].name))]

\* Communities B, (none), A, B gave B, A; the segments "Отказ" and "отказ"
\* with different paths gave one segment, and "В работе" kept the path
\* that "Отказ" has already.
C16_Witness ==
    /\ g.anchors = <<"B", NoKey, "A", "B">> /\ g.groups = <<"B", "A">>
    /\ ls.anchors = <<[name |-> Otkaz, href |-> "/contacts/lists/1/1"],
                      [name |-> OtkazLower, href |-> "/contacts/lists/1/2"],
                      [name |-> VRabote, href |-> "/contacts/lists/1/1"]>>
    /\ ls.allLists = <<[name |-> Otkaz, href |-> "/contacts/lists/1/1"],
                       [name |-> VRabote, href |-> "/contacts/lists/1/1"]>>

(***************************************************************************)
(* Properties of the segment filter                                        *)
(***************************************************************************)

\* Two code units are the same letter whatever their case.
SameLetter(a, b) ==
    \/ a = b
    \/ a \in Upper /\ b = a + CaseOffset
    \/ b \in Upper /\ a = b + CaseOffset

\* label contains keyword as a substring, letters compared without case.
Contains(label, keyword) ==
    \E off \in 0..(Len(label) - Len(keyword)) :
        \A j \in 1..Len(keyword) : SameLetter(label[off + j], keyword[j])

\* The keywords in force: the configured ones, the built-in ones when none
\* is configured.
KeywordsInForce ==
    IF ls.listFilters = <<>> THEN DefaultKeywords ELSE ls.listFilters

Selected(l) ==
    \E x \in 1..Len(KeywordsInForce) : Contains(l.name, KeywordsInForce[x])

SomeSelected == \E x \in 1..Len(ls.allLists) : Selected(ls.allLists[x])

\* C17: when some enumerated segment's label contains a keyword in force,
\* the targets are exactly the enumerated segments whose label contains
\* one, in enumeration order.
C17_FilterSelectsMatching ==
    (ls.i >= 1 /\ SomeSelected) =>
        ls.targetLists = SelectSeq(ls.allLists, Selected)

\* "В работе", "Отказ", "Случайное" with the keyword "отказ" gave "Отказ".
C17_Witness ==
    /\ ls.listFilters = <<OtkazLower>>
    /\ LowerNamesOf(ls.allLists)
         = <<ToLowerCase(VRabote), OtkazLower, ToLowerCase(Sluchainoe)>>
    /\ ls.allLists[2].name = Otkaz
    /\ ls.targetLists = <<ls.allLists[2]>>

\* C18: when no enumerated segment's label contains a keyword in force the
\* targets are all the enumerated segments; there is no target only when
\* no segment was enumerated.
C18_NoMatchFallsBackToAll ==
    ls.i >= 1 =>
        /\ ~SomeSelected => ls.targetLists = ls.allLists
        /\ ls.targetLists = <<>> => ls.allLists = <<>>

\* "В работе", "Отказ", "Случайное" with the keyword "нет такого" gave all
\* three.
C18_Witness ==
    /\ ls.listFilters = <<NetTakogo>>
    /\ Len(ls.allLists) = 3 /\ ls.allLists[2].name = Otkaz
    /\ ls.allLists[1].name = VRabote /\ ls.allLists[3].name = Sluchainoe
    /\ ls.targetLists = ls.allLists

(***************************************************************************)
(* Properties of the target loops                                          *)
(***************************************************************************)

\* C19 as stated: a failure while a community is set up (its switch, the
\* filter option, the bot dropdown) or while a bot is selected is turned
\* into a skip: the step does not leave parseNewSubsMode with an error.
C19_Original ==
    [][(n.pc \in {"group", "bot"}) => n'.outcome # "raised"]_vars

\* What the code does: the first community's setup failed, the mode ended
\* with the error and the second community was never reached.
C19_Aborted ==
    /\ n.pc = "done" /\ n.outcome = "raised"
    /\ n.ngroups = 2 /\ n.i = 1 /\ n.files = <<>> /\ n.nb = 0 /\ n.skips = 0

\* C20: when the enumeration of a community's active bots yields none, no
\* traversal and no retry is started for it, no artifact is written, and
\* the run goes on with the next community or returns after the last.
C20_NoBotsSkipsCommunity ==
    [][(n.pc = "group" /\ n'.outcome # "raised" /\ n'.nb = 0) =>
          /\ n'.i = n.i + 1 /\ n'.files = n.files
          /\ c' = c /\ c.pc = "idle" /\ r' = r /\ r.pc = "idle"
          /\ userIds' = userIds
          /\ IF n.i < n.ngroups THEN n'.pc = "group"
             ELSE n'.pc = "done" /\ n'.outcome = "returned"]_vars

\* The first community had no active bot and the second was processed.
C20_Witness ==
    /\ n.pc = "done" /\ n.outcome = "returned" /\ n.ngroups = 2
    /\ Len(n.files) = 1 /\ n.files[1].group = 2 /\ n.files[1].ids # {}

(***************************************************************************)
(* Properties of the artifacts of parseNewSubsMode                         *)
(***************************************************************************)

\* C21: the community's Set is emptied when its bots were enumerated, grows
\* only by the set a traversal of one of its bots returned, and is written
\* once, after the last bot, as the community's artifact.
C21_ArtifactIsUnionOfBots ==
    /\ [][(n.pc = "group" /\ n'.pc = "bot") => n'.groupIds = {}]_vars
    /\ [][(n.pc = "collect" /\ c.pc = "done" /\ c.outcome = "returned") =>
            IF n.b < n.nb
            THEN n'.groupIds = n.groupIds \cup c.result /\ n'.files = n.files
            ELSE n'.files = Append(n.files, [group |-> n.i,
                                             ids |-> n.groupIds \cup c.result])]_vars
    /\ [][n'.groupIds # n.groupIds => n.pc \in {"group", "collect"}]_vars
    /\ [][n'.files # n.files =>
            /\ n.pc \in {"show", "collect"} /\ n.b = n.nb
            /\ Len(n'.files) = Len(n.files) + 1
            /\ \A x \in 1..Len(n.files) : n'.files[x] = n.files[x]]_vars
    /\ [](\A x, y \in 1..Len(n.files) : x < y => n.files[x].group < n.files[y].group)

\* Both bots of the second community were traversed; its artifact lacks the
\* identifier of the first community's artifact.
C21_Witness ==
    /\ n.pc = "done" /\ n.outcome = "returned"
    /\ n.traversed = <<1, 2>>
    /\ Len(n.files) = 2 /\ n.files[1].ids = {1} /\ n.files[2].ids = {2}

\* parse() with config.mode
ParseCall(mode) == [PIdle EXCEPT !.pc = "init", !.mode = mode]

\* catch (error) { console.error(...); throw error; } and on to finally
PCaught(rec) == [rec EXCEPT !.pc = "close", !.body = "raised"]

\* The try block has run to its end.
PReturned(rec) == [rec EXCEPT !.pc = "close", !.body = "returned"]

\* What init meets: the browser, the context and the page are created; the
\* launch rejects; the context or the page cannot be created.
InitOutcomes == {"ok", "launchError", "pageError"}

PAfterInit(rec, o) ==
    CASE o = "ok" -> [rec EXCEPT !.pc = "auth", !.browser = TRUE, !.page = TRUE]
      [] o = "launchError" -> PCaught(rec)
      [] o = "pageError" -> PCaught([rec EXCEPT !.browser = TRUE])

PInit ==
    /\ p.pc = "init"
    /\ \E o \in IF env.mayThrow THEN InitOutcomes ELSE {"ok"} :
         p' = PAfterInit(p, o)
    /\ UNCHANGED <<now, env, w, r, userIds, c, k, cfg, n, g, ls, sel>>

\* What checkAuth and loginVK meet: the session is authorized; the login
\* through the VK button, which saves the session; the manual login; a wait
\* of loginVK that rejects.
AuthOutcomes == {"authorized", "loggedIn", "loggedInManually", "loginError"}

\* The handler of the mode: the simple variant has no new-subs branch.
HandlerOf(mode, variant) ==
    CASE mode = "groups" -> "groups"
      [] mode = "lists" -> "lists"
      [] mode = "new-subs" /\ variant = "full" -> "new-subs"
      [] OTHER -> "contacts"

PAfterAuth(rec, o) ==
    CASE o = "loginError" -> PCaught(rec)
      [] o = "loggedIn" ->
           [rec EXCEPT !.pc = "mode", !.saves = Append(rec.saves, "login")]
      [] OTHER -> [rec EXCEPT !.pc = "mode"]

\* The pages the mode handlers enumerate their targets on.
ParsePages ==
    {<<>>, <<[name |-> VRabote, href |-> "/contacts/lists/1/1"]>>,
     <<[name |-> VRabote, href |-> "/contacts/lists/1/1"],
       [name |-> Otkaz, href |-> "/contacts/lists/1/2"]>>}

\* checkAuth, loginVK and the call of the mode handler; the base scenario
\* first reads the community and opens its contacts page.
PAuth ==
    /\ p.pc = "auth"
    /\ \E o \in IF env.mayThrow THEN AuthOutcomes ELSE AuthOutcomes \ {"loginError"} :
         LET rec == PAfterAuth(p, o)
             h == HandlerOf(p.mode, cfg.variant)
         IN IF rec.pc # "mode"
            THEN p' = rec /\ UNCHANGED <<n, g, ls>>
            ELSE CASE h = "groups" ->
                        /\ \E anchors \in {<<>>, <<"A">>, <<"A", "B">>} : g' = GroupsCall(anchors)
                        /\ p' = rec /\ UNCHANGED <<n, ls>>
                   [] h = "lists" ->
                        /\ \E anchors \in ParsePages : ls' = ListsCall(NoFilters, anchors)
                        /\ p' = rec /\ UNCHANGED <<n, g>>
                   [] h = "new-subs" ->
                        /\ \E ng \in 0..2 : n' = NewSubsCall(ng)
                        /\ p' = rec /\ UNCHANGED <<g, ls>>
                   [] OTHER ->
                        /\ \E opened \in IF env.mayThrow THEN BOOLEAN ELSE {TRUE} :
                             p' = IF opened THEN rec ELSE PCaught(rec)
                        /\ UNCHANGED <<n, g, ls>>
    /\ UNCHANGED <<now, env, w, r, userIds, c, k, cfg, sel>>

\* The activation the try block is waiting for.
Handler ==
    CASE HandlerOf(p.mode, cfg.variant) = "groups" -> g
      [] HandlerOf(p.mode, cfg.variant) = "lists" -> ls
      [] HandlerOf(p.mode, cfg.variant) = "new-subs" -> n
      [] OTHER -> c

\* The mode handler has returned or raised; the base scenario then writes
\* its results, which may fail.
PMode ==
    /\ p.pc = "mode"
    /\ Handler.pc = "done"
    /\ \E written \in IF env.mayThrow /\ HandlerOf(p.mode, cfg.variant) = "contacts"
                      THEN BOOLEAN ELSE {TRUE} :
         p' = IF Handler.outcome = "raised" \/ ~written
              THEN PCaught(p) ELSE PReturned(p)
    /\ UNCHANGED <<now, env, w, r, userIds, c, k, cfg, n, g, ls, sel>>

SaveOutcomes == {"saved", "error"}

BrowserCloseOutcomes == {"closed", "error"}

\* close() skipping saveSession after an error of the try block.
CloseUnsavedAfterError(rec, s, b) ==
    LET saving == rec.page /\ rec.body # "raised"
        saveErr == saving /\ s = "error"
        closing == ~saveErr /\ rec.browser
        closeErr == closing /\ b = "error"
    IN [rec EXCEPT !.pc = "done",
                   !.saves = IF saving THEN Append(rec.saves, "close") ELSE rec.saves,
                   !.closed = closing /\ ~closeErr,
                   !.outcome = IF saveErr \/ closeErr \/ rec.body = "raised"
                               THEN "raised" ELSE "returned",
                   !.error = IF saveErr \/ closeErr THEN "close"
                             ELSE IF rec.body = "raised" THEN "body" ELSE "none"]

\* finally { await this.close(); }: saveSession when there is a page, then
\* browser.close() when there is a browser.  An error of either leaves close
\* and parse at once and takes the place of the error the catch block threw.
CloseOf(rec, s, b) ==
    LET saveErr == rec.page /\ s = "error"
        closing == ~saveErr /\ rec.browser
        closeErr == closing /\ b = "error"
    IN [rec EXCEPT !.pc = "done",
                   !.saves = IF rec.page THEN Append(rec.saves, "close") ELSE rec.saves,
                   !.closed = closing /\ ~closeErr,
                   !.outcome = IF saveErr \/ closeErr \/ rec.body = "raised"
                               THEN "raised" ELSE "returned",
                   !.error = IF saveErr \/ closeErr THEN "close"
                             ELSE IF rec.body = "raised" THEN "body" ELSE "none"]

PClose ==
    /\ p.pc = "close"
    /\ \E s \in IF env.mayThrow THEN SaveOutcomes ELSE {"saved"},
          b \in IF env.mayThrow THEN BrowserCloseOutcomes ELSE {"closed"} :
         p' = CloseOf(p, s, b)
    /\ UNCHANGED <<now, env, w, r, userIds, c, k, cfg, n, g, ls, sel>>


\* A whole run of either variant in each of the modes, on a page of at most
\* two targets and with a ceiling of one page.
InitParse ==
    /\ now = 0
    /\ env = Slower(TRUE)
    /\ w = WIdle /\ r = RIdle /\ c = CIdle /\ k = KIdle /\ n = NIdle
    /\ g = GIdle /\ ls = LIdle
    /\ userIds = {}
    /\ cfg \in [maxPages : {1}, seekWait : {DefaultSeekWait},
                seekNaN : {FALSE}, pagesNaN : {FALSE},
                variant : {"full", "simple"},
                newSubsWait : {2 * NewSubsMinStable}, newSubsPost : {1}]
    /\ \E mode \in {"contacts", "groups", "lists", "new-subs"} : p = ParseCall(mode)
    /\ sel = DIdle

NextParse ==
    PInit \/ PAuth \/ PMode \/ PClose
        \/ GEnumerate \/ GSwitch \/ GCollected
        \/ LEnumerate \/ LOpen \/ LCollected
        \/ NGroup \/ NBot \/ NShow \/ NCollected \/ RTrigger \/ RCheck
        \/ CStart \/ CFirstReady \/ CExtract \/ CAdvance \/ CSettle \/ CPace
        \/ KSample \/ KSleep
        \/ WSample \/ WSleep \/ SStart \/ SIterate

SpecParse == InitParse /\ [][NextParse]_vars

\* C22: a run ends only out of close(); when a page had been created,
\* close() called saveSession last of all; a run whose try block raised
\* (a mode handler included) is rejected, with the error of the try block
\* whenever close() itself went through; a run whose try block returned
\* and whose close() went through is fulfilled.
C22_SessionSavedAndErrorReported ==
    /\ [][(p.pc # "done" /\ p'.pc = "done") => p.pc = "close"]_vars
    /\ [](p.pc = "done" /\ p.page =>
            Len(p.saves) > 0 /\ p.saves[Len(p.saves)] = "close")
    /\ [](p.pc = "done" /\ p.body = "raised" =>
            /\ p.outcome = "raised"
            /\ (p.error # "close" => p.error = "body"))
    /\ [](p.pc = "done" /\ p.body = "returned" /\ p.error # "close" =>
            p.outcome = "returned")
    /\ [][(p.pc = "mode" /\ Handler.pc = "done" /\ Handler.outcome = "raised") =>
            p'.pc = "close" /\ p'.body = "raised"]_vars

C22_Witness ==
    /\ p.pc = "done" /\ p.mode = "groups" /\ g.pc = "done" /\ g.outcome = "raised"
    /\ p.saves = <<"close">> /\ p.outcome = "raised" /\ p.error = "body"
    /\ p.closed

\* The leaf target the mode handlers are at: the community, the segment, the
\* community and its bot.
Target == <<g.i, ls.i, n.i, n.b>>

\* collectAllContactIds has been called and has not returned yet.
Traversing == c.pc \notin {"idle", "done"}

\* C23: a traversal runs only while the handler of the mode awaits it for
\* its current target; the target does not change while a traversal runs;
\* a traversal starts only after the result of the one before was taken,
\* and a returned traversal is followed only by the handler taking its
\* result.
C23_OneTraversalAtATime ==
    /\ [](Traversing =>
            /\ p.pc = "mode"
            /\ HandlerOf(p.mode, cfg.variant) # "contacts" => Handler.pc = "collect"
            /\ \A h \in {g, ls, n} : h.pc \in {"idle", "done", "collect"}
            /\ Cardinality({h \in {"g", "ls", "n"} :
                   CASE h = "g" -> g.pc = "collect"
                     [] h = "ls" -> ls.pc = "collect"
                     [] OTHER -> n.pc = "collect"}) <= 1)
    /\ [][Traversing => Target' = Target]_vars
    /\ [][(~Traversing /\ Traversing') => (c.pc = "idle" /\ Target' = Target)]_vars
    /\ [][(c.pc = "done" /\ c' # c) =>
            (c' = CIdle /\ Handler.pc = "collect" /\ Handler'.pc # "collect")]_vars

C23_Witness ==
    /\ p.mode = "new-subs" /\ n.i = 2 /\ n.b = 2 /\ n.pc = "collect"
    /\ Len(n.files) = 1 /\ n.traversed = <<1>>
    /\ c.pc = "extract"

\* C24: the enumerated list is fixed once the loop has started; the index
\* moves by one, from the first target on, and only after the traversal of
\* the current target; when target i is selected the artifacts of all the
\* targets before it are written, in the order of the list; a handler that
\* returns has gone through the whole list.
C24_TargetsInEnumerationOrder ==
    /\ [][g.pc \notin {"idle", "enumerate"} => g'.groups = g.groups]_vars
    /\ [][ls.pc \notin {"idle", "enumerate"} =>
            ls'.targetLists = ls.targetLists]_vars
    /\ [][g'.i # g.i => \/ g.pc = "enumerate" /\ g'.i = 1
                        \/ g.pc = "collect" /\ c.pc = "done" /\ g'.i = g.i + 1]_vars
    /\ [][ls'.i # ls.i => \/ ls.pc = "enumerate" /\ ls'.i = 1
                          \/ ls.pc = "collect" /\ c.pc = "done" /\ ls'.i = ls.i + 1
                          \/ ls.pc = "open" /\ ls'.i = ls.i + 1
                               /\ ls'.opened = ls.opened]_vars
    /\ [](g.pc \in {"switch", "collect"} =>
            g.i \in 1..Len(g.groups) /\ Len(g.files) = g.i - 1)
    /\ [](\A x \in 1..Len(g.files) : g.files[x].key = g.groups[x])
    /\ [][ls'.opened # ls.opened =>
            /\ ls.pc = "open" /\ ls.i \in 1..Len(ls.targetLists)
            /\ ls'.opened = Append(ls.opened, ls.targetLists[ls.i].name)
            /\ Len(ls.files) = Len(ls.opened)]_vars
    /\ [](/\ Len(ls.files) <= Len(ls.opened)
          /\ \A x \in 1..Len(ls.files) : ls.files[x].name = ls.opened[x])
    /\ [](g.pc = "done" /\ g.outcome = "returned" =>
            g.i = Len(g.groups) + 1 /\ Len(g.files) = Len(g.groups))
    /\ [](ls.pc = "done" /\ ls.outcome = "returned" =>
            ls.i = Len(ls.targetLists) + 1)

C24_Witness ==
    /\ p.mode = "groups" /\ g.pc = "collect" /\ g.i = 2
    /\ g.groups = <<"A", "B">>
    /\ Len(g.files) = 1 /\ g.files[1].key = "A"
    /\ c.pc \notin {"idle", "done"}

\* C25 as stated, for the wait for the show control: when it times out,
\* clickShowAndWaitWithRetries hands a failure outcome to its caller.
C25_Original ==
    [][(r.pc = "trigger" /\ r'.cause = "timeout") => r'.outcome = "false"]_vars

\* C25: the readiness poll always ends in a result, true or false, and
\* never in an error; the wait for the show control that times out leaves
\* clickShowAndWaitWithRetries and the mode handler with the error.
C25_PollReturnsShowWaitRaises ==
    /\ [](w.pc = "done" => w.result \in BOOLEAN)
    /\ [][(r.pc = "check" /\ r'.pc = "done") => r'.outcome \in {"true", "false"}]_vars
    /\ [][(r.pc = "trigger" /\ r'.cause = "timeout") => r'.outcome = "raised"]_vars
    /\ [][(n.pc = "show" /\ r.pc = "done" /\ r.cause = "timeout") =>
            n'.pc = "done" /\ n'.outcome = "raised"]_vars

C25_Witness ==
    /\ n.pc = "show" /\ n.i = 1 /\ n.ngroups = 2
    /\ r.pc = "done" /\ r.cause = "timeout" /\ r.outcome = "raised"
    /\ r.failed = 1

\* C26: in parseGroupsMode a traversal starts only for the community that
\* was just switched to and whose contacts page was opened, before its
\* artifact exists; the artifact is written only out of the returned
\* traversal, for the current community and with its result; the way back
\* to the list and the next community come only with that artifact written;
\* a run that returns has written one artifact for each enumerated
\* community, and the enumerated communities are distinct.
C26_OneArtifactPerCommunity ==
    /\ [][(g.pc = "switch" /\ g'.pc # "switch") =>
            /\ g'.pc \in {"collect", "done"}
            /\ g'.pc = "done" => g'.outcome = "raised"
            /\ g'.i = g.i /\ g'.files = g.files /\ c.pc = "idle"]_vars
    /\ [][(~Traversing /\ Traversing') =>
            g.pc = "collect" /\ Len(g.files) = g.i - 1 /\ g' = g]_vars
    /\ [][g'.files # g.files =>
            /\ g.pc = "collect" /\ c.pc = "done" /\ c.outcome = "returned"
            /\ g'.files = Append(g.files, [key |-> g.groups[g.i], ids |-> c.result,
                                           extracted |-> UNION Elems(c.pages)])]_vars
    /\ [][(g.pc = "collect" /\ g'.pc = "switch") =>
            Len(g'.files) = g.i /\ g'.i = g.i + 1]_vars
    /\ [](g.pc = "done" /\ g.outcome = "returned" =>
            /\ Len(g.files) = Len(g.groups)
            /\ \A x \in 1..Len(g.groups) : g.files[x].key = g.groups[x]
            /\ \A x, y \in 1..Len(g.groups) : x # y => g.groups[x] # g.groups[y])

C26_Witness ==
    /\ g.pc = "done" /\ g.outcome = "returned"
    /\ g.anchors = <<"B", "A">>
    /\ Len(g.files) = 2 /\ g.files[1].key = "B" /\ g.files[2].key = "A"
    /\ g.files[1].ids # {}

\* One traversal of either variant into an empty accumulator, under a
\* ceiling of one or of two pages; its awaits all complete: a
\* step that can be taken is taken.
InitEnds ==
    /\ now = 0
    /\ env = Slow(TRUE)
    /\ w = WIdle /\ r = RIdle /\ c = CIdle /\ k = KIdle /\ n = NIdle
    /\ g = GIdle /\ ls = LIdle /\ p = PIdle /\ sel = DIdle
    /\ userIds = {}
    /\ cfg \in [maxPages : {1, 2}, seekWait : {DefaultSeekWait},
                seekNaN : {FALSE}, pagesNaN : {FALSE},
                variant : {"full", "simple"}, newSubsWait : {0},
                newSubsPost : {0}]

FairCollect == InitEnds /\ [][NextCollect]_vars /\ WF_vars(NextCollect)

InitExtract ==
    /\ now = 0
    /\ env = [Slow(FALSE) EXCEPT !.contents = TRUE, !.pace = {PaceMin, PaceMax}]
    /\ w = WIdle /\ r = RIdle /\ c = CIdle /\ k = KIdle /\ n = NIdle
    /\ g = GIdle /\ ls = LIdle /\ p = PIdle /\ sel = DIdle
    /\ userIds \in SUBSET Ids
    /\ cfg \in [maxPages : {2}, seekWait : {-1, 0, DefaultSeekWait},
                seekNaN : BOOLEAN, pagesNaN : {FALSE}, variant : {"full"},
                newSubsWait : {0}, newSubsPost : {0}]

NextExtract ==
    CStart \/ CFirstReady \/ CExtract \/ CAdvance \/ CSettle \/ CPace
        \/ KSample \/ KSleep
        \/ WSample \/ WSleep

SpecExtract == InitExtract /\ [][NextExtract]_vars

\* C28: an extraction adds to the accumulator exactly the identifiers the
\* page's content yields; extracting a content that was already extracted
\* during the traversal leaves the accumulator as it is; and the result of
\* the traversal is the union over the distinct contents.
C28_ExtractAndMergeIdempotent ==
    /\ [][(c.pc = "extract" /\ c'.pc = "seek") =>
            LET content == c'.contents[Len(c'.contents)]
            IN /\ c'.contents = Append(c.contents, content)
               /\ userIds' = userIds \cup SetOf(ExtractUserIds(content))
               /\ (\E x \in 1..Len(c.contents) : c.contents[x] = content) =>
                      userIds' = userIds]_vars
    /\ [](c.pc \in {"extract", "seek"} =>
            userIds = UNION {SetOf(ExtractUserIds(content)) :
                                content \in SetOf(c.contents)})
    /\ [](\A content \in PageContents :
            LET ids == ExtractUserIds(content)
            IN /\ \A x, y \in 1..Len(ids) : x # y => ids[x] # ids[y]
               /\ SetOf(ids) = {content[x].id : x \in 1..Len(content)}
               /\ Merge(Merge(userIds, SetOf(ids)), SetOf(ids)) = Merge(userIds, SetOf(ids)))

C28_Witness ==
    /\ c.pc = "seek" /\ Len(c.contents) = 2
    /\ c.contents[1] = c.contents[2]
    /\ c.contents[1] = <<Mention("colon", 1, FALSE), Mention("plain", 1, TRUE),
                          Mention("at", 2, TRUE)>>
    /\ userIds = {1, 2}

\* C29: in collectAllContactIds of part_000 waitForAnyUsers is called when
\* the traversal starts and at no other step of it; when it returns false
\* the traversal sleeps GraceDelay and goes on to the first extraction with
\* the accumulator as it was; a traversal that got past a failed first wait
\* and returns has extracted at least one page and returns all it extracted.
C29_FailedFirstWaitGoesOn ==
    /\ [][(w.pc = "idle" /\ w'.pc # "idle") =>
            /\ c.pc = "idle" /\ c'.pc = "firstReady" /\ c'.pollerCalls = 1
            /\ w'.maxWait = FirstReadyWait]_vars
    /\ [][c.pc \notin {"idle", "firstReady"} =>
            w' = w /\ w.pc = "idle" /\ c'.pollerCalls = c.pollerCalls]_vars
    /\ [][(c.pc = "firstReady" /\ c'.pc # "firstReady") =>
            /\ w.pc = "done"
            /\ c'.firstReady = w.result /\ c'.grace = ~w.result
            /\ now' = (IF w.result THEN now ELSE now + GraceDelay)
            /\ userIds' = userIds
            /\ c.maxPages >= 1 => (c'.pc = "extract" /\ c'.outcome = "none")]_vars
    /\ [](c.pc = "done" /\ c.outcome = "returned" /\ c.grace /\ c.maxPages >= 1 =>
            /\ c.iterations >= 1
            /\ c.result = UNION Elems(c.pages)
            /\ c.pollerCalls = 1)

C29_Witness ==
    /\ cfg.variant = "full" /\ c.pc = "done" /\ c.outcome = "returned"
    /\ c.grace /\ ~c.firstReady /\ c.pollerCalls = 1
    /\ c.iterations = 2 /\ c.result = Ids

\* C30: once the seek has returned the control, the traversal clicks it,
\* then awaits the load state, then sleeps between PaceMin and PaceMax, and
\* only then moves to the next page and extracts; from the click to the end
\* of the delay nothing is extracted and the accumulator is not touched.
C30_AdvanceThenSettleThenPace ==
    /\ [][(c.pc = "seek" /\ c'.pc # "seek" /\ k.found) =>
            /\ c'.pc = "settle" /\ c'.advances = c.advances + 1
            /\ c'.currentPage = c.currentPage]_vars
    /\ [][(c.pc = "settle" /\ c'.pc # "settle") =>
            c' = [c EXCEPT !.pc = "pace"]]_vars
    /\ [][(c.pc = "pace" /\ c'.pc # "pace") =>
            /\ now' - now \in PaceMin..PaceMax
            /\ c'.currentPage = c.currentPage + 1
            /\ c'.pc = (IF c'.currentPage <= c.maxPages THEN "extract" ELSE "done")]_vars
    /\ [][c.pc \in {"seek", "settle", "pace"} =>
            /\ userIds' = userIds
            /\ c'.pages = c.pages /\ c'.iterations = c.iterations
            /\ c'.contents = c.contents]_vars
    /\ [][(c'.pc = "extract" /\ c.pc # "extract") =>
            c.pc \in {"firstReady", "pace"}]_vars

C30_Witness ==
    /\ c.pc = "extract" /\ c.currentPage = 2 /\ c.advances = 1
    /\ Len(c.contents) = 1 /\ userIds = {1}
    /\ now >= PaceMax


(***************************************************************************)
(* ensureSelect2Open: open the bot dropdown, with retries                  *)
(***************************************************************************)

\* What a look at the page finds: no open container, an open container
\* whose results list is hidden, or an open container with a visible list.
DropdownStates == {"closed", "container", "open"}

\* The check inside the loop: open container and visible results list.
IsOpen(o) == o = "open"

\* The final check: an open container is enough.
FinallyOpen(o) == o \in {"container", "open"}

\* for (let attempt = 1; attempt <= maxAttempts; attempt++)
DMoreAttemptsInclusive(rec) == rec.attempt <= rec.maxAttempts + 1

DMoreAttempts(rec) == rec.attempt <= rec.maxAttempts

DLoopHead(rec) ==
    IF DMoreAttempts(rec) THEN [rec EXCEPT !.pc = "check"]
    ELSE [rec EXCEPT !.pc = "final"]

EnsureSelect2OpenCall(maxAttempts) ==
    DLoopHead([DIdle EXCEPT !.maxAttempts = maxAttempts])

DRaised(rec, cause) == [rec EXCEPT !.pc = "done", !.outcome = "raised", !.cause = cause]

DReturned(rec) == [rec EXCEPT !.pc = "done", !.outcome = "returned"]

\* page.evaluate of the loop; a rejected evaluate is not caught.
DCheck ==
    /\ sel.pc = "check"
    /\ \E o \in DropdownStates \cup {"error"} :
         LET rec == [sel EXCEPT !.seen = Append(@, o)] IN
         sel' = IF o = "error" THEN DRaised(rec, "evaluate")
                ELSE IF IsOpen(o) THEN DReturned(rec)
                ELSE [rec EXCEPT !.pc = "open"]
    /\ UNCHANGED <<now, env, w, r, userIds, c, k, cfg, n, g, ls, p>>

\* One open action: scroll, click, ArrowDown, every failure swallowed; the
\* click waits up to ClickWait for the control.
DOpen ==
    /\ sel.pc = "open"
    /\ \E d \in {0, ClickWait} :
         /\ now' = now + d
         /\ sel' = DLoopHead([sel EXCEPT !.opens = @ + 1, !.attempt = @ + 1])
    /\ UNCHANGED <<env, w, r, userIds, c, k, cfg, n, g, ls, p>>

\* The final check after the loop.
DFinal ==
    /\ sel.pc = "final"
    /\ \E o \in DropdownStates \cup {"error"} :
         LET rec == [sel EXCEPT !.seen = Append(@, o)] IN
         sel' = IF o = "error" THEN DRaised(rec, "evaluate")
                ELSE IF FinallyOpen(o) THEN DReturned(rec)
                ELSE DRaised(rec, "notOpen")
    /\ UNCHANGED <<now, env, w, r, userIds, c, k, cfg, n, g, ls, p>>

InitSelect ==
    /\ now = 0
    /\ env = Regular({0}, FALSE)
    /\ w = WIdle /\ r = RIdle
    /\ userIds = {} /\ c = CIdle /\ k = KIdle /\ cfg = NoConfig /\ n = NIdle
    /\ g = GIdle /\ ls = LIdle /\ p = PIdle
    /\ \E maxAttempts \in (0..MaxAttempts) \cup {DefaultAttempts} :
         sel = EnsureSelect2OpenCall(maxAttempts)

NextSelect == DCheck \/ DOpen \/ DFinal

SpecSelect == InitSelect /\ [][NextSelect]_vars

\* C31: ensureSelect2Open makes no open action when the first check finds the
\* dropdown open, makes at most maxAttempts open actions, each one right after
\* a check that found the dropdown not open, and raises its "could not open"
\* error only after maxAttempts open actions and a final check that found no
\* open dropdown.
C31_OpensOnlyWhenClosedAndBounded ==
    /\ sel.opens <= sel.maxAttempts
    /\ (Len(sel.seen) > 0 /\ IsOpen(sel.seen[1]))
         => (sel.opens = 0 /\ sel.outcome = "returned")
    /\ sel.pc = "open"
         => (Len(sel.seen) = sel.opens + 1 /\ ~IsOpen(sel.seen[Len(sel.seen)]))
    /\ Len(sel.seen) >= sel.opens
    /\ sel.cause = "notOpen"
         => /\ sel.opens = sel.maxAttempts
            /\ Len(sel.seen) = sel.maxAttempts + 1
            /\ sel.seen[Len(sel.seen)] = "closed"

C31_Witness ==
    /\ sel.maxAttempts = DefaultAttempts
    /\ sel.cause = "notOpen"
    /\ sel.opens = DefaultAttempts
    /\ sel.seen[1] = "container"

\* C32: when the trigger step of clickShowAndWaitWithRetries fails (the show
\* control does not become visible in time, or the click is rejected), the
\* call ends at once with the error: the attempt is not counted as failed, no
\* click or readiness check follows, and the call never goes on to another
\* attempt or to returning false.
C32_TriggerFailureRaises ==
    [][/\ (r.pc = "trigger" /\ r'.cause \in {"timeout", "error"})
            => /\ r'.pc = "done" /\ r'.outcome = "raised"
               /\ r'.failed = r.failed /\ r'.attempt = r.attempt
               /\ r'.clicks = r.clicks /\ r'.checks = r.checks
       /\ r.cause # "none" => (r' = r /\ r.outcome = "raised")]_vars

C32_Witness ==
    /\ r.cause = "error"
    /\ r.outcome = "raised"
    /\ r.failed = 1
    /\ r.attempt = 2
    /\ r.retries = MaxRetries

\* C33: in collectAllContactIds a failed click on the advance control does
\* not end the traversal: the load wait and the pacing delay follow as after
\* a click that went through, the page counter then goes up by exactly one,
\* and the loop test leads to another extraction unless the ceiling is
\* passed.  After the seek the traversal ends only when the seek found no
\* control.
C33_FailedClickSwallowed ==
    [][/\ (c.pc = "seek" /\ c'.failedClicks # c.failedClicks)
            => /\ c'.failedClicks = c.failedClicks + 1
               /\ c'.pc = "settle" /\ c'.outcome = "none"
               /\ c'.currentPage = c.currentPage
       /\ (c.pc = "seek" /\ c'.pc = "done")
            => (~k.found /\ c'.outcome = "returned")
       /\ (c.pc = "settle" /\ c' # c) => c'.pc = "pace"
       /\ (c.pc = "pace" /\ c' # c)
            => /\ c'.currentPage = c.currentPage + 1
               /\ IF c'.currentPage <= c.maxPages
                  THEN c'.pc = "extract" /\ c'.outcome = "none"
                  ELSE c'.pc = "done" /\ c'.outcome = "returned"]_vars

C33_Witness ==
    /\ c.failedClicks = 1
    /\ c.currentPage = 2
    /\ Len(c.contents) = 2
    /\ c.contents[1] = c.contents[2]
    /\ c.contents[1] # <<>>

\* C34: in one traversal every loop iteration makes one extraction and then
\* at most one advance: the advances never exceed the extractions, the
\* extractions never exceed the advances by more than the one iteration under
\* way, and once the loop has been entered the extractions never exceed the
\* ceiling; a traversal that ends at the ceiling has made as many advances as
\* extractions, so the page its last advance leads to is not extracted.
C34_ExtractThenAdvance ==
    /\ c.advances <= c.iterations
    /\ c.iterations <= c.advances + 1
    /\ Len(c.pages) <= c.iterations
    /\ c.iterations > 0 => c.iterations <= c.maxPages
    /\ c.pc \in {"extract", "iterate", "settle", "pace"} => c.advances = c.iterations
    /\ c.pc = "seek" => c.iterations = c.advances + 1
    /\ (c.outcome = "returned" /\ c.currentPage > c.maxPages /\ c.iterations > 0)
         => /\ c.advances = c.maxPages
            /\ c.iterations = c.maxPages
            /\ Len(c.pages) = c.maxPages
            /\ c.currentPage = c.advances + 1

C34_Witness ==
    /\ c.outcome = "returned"
    /\ cfg.variant = "full"
    /\ c.maxPages = MaxCeiling
    /\ c.currentPage = MaxCeiling + 1
    /\ c.advances = MaxCeiling
    /\ Len(c.pages) = MaxCeiling
    /\ c.failedClicks = 0

\* C35: with minStableWindow > 0, a success of waitForAnyUsers that comes from
\* the count check never comes at the first sample whose probe returned: that
\* sample is recorded as a change, whatever its value, and the success needs
\* an earlier successful sample of the same value at least minStableWindow
\* before the one that succeeds.
C35_NoSuccessOnFirstSample ==
    LET ok == OkSamples(w.log)
        m == Len(ok)
    IN w.minStable > 0 =>
         /\ (m = 1 /\ w.log[Len(w.log)].pr = "ok")
              => /\ ~w.result
                 /\ w.lastCount = ok[1].v
                 /\ w.lastChangeTs = ok[1].t
         /\ (w.result /\ w.log[Len(w.log)].pr = "ok")
              => /\ m >= 2
                 /\ \E i \in 1..(m - 1) :
                      /\ ok[i].v = ok[m].v
                      /\ ok[m].t - ok[i].t >= w.minStable

\* The first successful sample already held enough, long after the start.
C35_Witness ==
    LET ok == OkSamples(w.log)
    IN /\ w.minStable > 0 /\ ~w.shortcut
       /\ Returned(TRUE)
       /\ Len(ok) = 2
       /\ w.log[1].pr = "throw"
       /\ ok[1].v >= w.minCount
       /\ ok[1].t - w.start >= w.minStable

\* C36: a sample of waitForAnyUsers that throws leaves the recorded value and
\* the time of the last change as they were, so the sample after a run of
\* thrown ones succeeds when its value is the recorded one, is large enough,
\* and minStableWindow has elapsed since that value was first recorded.
C36_ThrowKeepsValueAndClock ==
    [][/\ (Sampled /\ (NewSample.pr = "throw" \/ NewSample.sc = "throw"))
            => /\ w'.lastCount = w.lastCount
               /\ w'.lastChangeTs = w.lastChangeTs
       /\ (/\ Sampled /\ NewSample.pr = "ok"
           /\ Len(w.log) > 0 /\ w.log[Len(w.log)].pr # "ok"
           /\ NewSample.v = w.lastCount
           /\ NewSample.v >= w.minCount
           /\ NewSample.t - w.lastChangeTs >= w.minStable)
            => w'.pc = "done" /\ w'.result]_vars

\* A value seen once, then thrown samples only, then the value again.
C36_Witness ==
    LET ok == OkSamples(w.log)
    IN /\ w.minStable = MaxStable /\ ~w.shortcut
       /\ Returned(TRUE)
       /\ Len(ok) = 2 /\ Len(w.log) >= 4
       /\ w.log[1].pr = "ok"
       /\ \A i \in 2..(Len(w.log) - 1) : w.log[i].pr = "throw"
       /\ w.lastChangeTs = ok[1].t

\* The advance-seek timeout is zero, negative or NaN.
NoSeekTime == cfg.seekWait <= 0 \/ cfg.seekNaN

\* C37: with an advance-seek timeout that is zero, negative or not a number,
\* waitForNextPageButton returns null without one sample of the page, and the
\* traversal makes one extraction, no advance, and returns after it.
C37_NoSeekTimeNoSample ==
    NoSeekTime =>
        /\ k.pc \in {"idle", "done"}
        /\ k.samples = 0 /\ ~k.found
        /\ c.iterations <= 1 /\ c.advances = 0
        /\ c.pc \notin {"settle", "pace"}
        /\ c.pc = "extract" => c.iterations = 0
        /\ c.outcome = "returned" => Len(c.pages) = 1

C37_Witness ==
    /\ cfg.seekNaN
    /\ c.outcome = "returned"
    /\ c.maxPages = 2
    /\ Len(c.pages) = 1
    /\ c.pages[1] = Ids
    /\ k = KIdle

\* C38: a configured page ceiling of 0, or one that is no number, is taken
\* as unset: the traversal runs with the default ceiling of 10000 pages in
\* both variants, and so does not end before its first extraction.
C38_ZeroCeilingIsDefault ==
    (c.pc # "idle" /\ (cfg.pagesNaN \/ cfg.maxPages = 0)) =>
        /\ c.maxPages = DefaultMaxPages
        /\ c.pc = "done" => c.iterations >= 1

\* More pages visited than the largest ceiling configured.
C38_Witness ==
    /\ cfg.maxPages = 0 /\ ~cfg.pagesNaN
    /\ cfg.variant = "simple"
    /\ c.outcome = "returned"
    /\ c.maxPages = DefaultMaxPages
    /\ Len(c.pages) = MaxCeiling + 1

\* The enumerated segments whose lowercased label contains a default keyword.
MatchingDefault ==
    SelectSeq(ls.allLists, LAMBDA l :
        \E x \in 1..Len(DefaultKeywords) :
            Includes(ToLowerCase(l.name), DefaultKeywords[x]))

\* C39: in segments mode with no filter list configured (absent or empty) the
\* default keywords are the filter: the targets are the enumerated segments
\* whose label contains a default keyword, and the whole enumerated list is
\* taken only when no label contains one.
C39_DefaultKeywordsFilter ==
    (ls.listFilters = NoFilters /\ ls.pc \notin {"idle", "enumerate"}) =>
        /\ MatchingDefault # <<>> => ls.targetLists = MatchingDefault
        /\ MatchingDefault = <<>> => ls.targetLists = ls.allLists

C39_Witness ==
    /\ ls.listFilters = NoFilters
    /\ ls.pc \notin {"idle", "enumerate"}
    /\ Len(ls.allLists) = 2
    /\ Len(ls.targetLists) = 1
    /\ ls.targetLists[1] = ls.allLists[2]

\* The community whose processing ended last has an artifact.
LastCommunityWritten ==
    Len(n.files) > 0 /\ n.files[Len(n.files)].group = n.i - 1

\* C40: in bots-and-steps mode a community that was processed to its end has
\* an artifact exactly when at least one active bot was enumerated for it:
\* with no active bot nothing is written, and with bots that were all skipped
\* after exhausted retries an artifact with no identifier is written.  The
\* artifacts change only by the one a community gets after its last bot.
C40_ArtifactIffActiveBots ==
    /\ []((n.i > 1 /\ (n.pc = "group" \/ (n.pc = "done" /\ n.outcome = "returned")))
            => /\ LastCommunityWritten <=> n.nb >= 1
               /\ (n.nb >= 1 /\ Len(n.skipped) = n.nb)
                    => n.files[Len(n.files)].ids = {})
    /\ [][n'.files # n.files
            => /\ n.pc \in {"show", "collect"}
               /\ n.nb >= 1 /\ n.b = n.nb
               /\ n'.i = n.i + 1
               /\ Len(n'.files) = Len(n.files) + 1
               /\ SubSeq(n'.files, 1, Len(n.files)) = n.files
               /\ n'.files[Len(n'.files)].group = n.i]_vars

\* The first community had no active bot, the bots of the second were all
\* skipped: one artifact, the second community's, with no identifier.
C40_Witness ==
    /\ n.pc = "done" /\ n.outcome = "returned"
    /\ n.ngroups = 2 /\ n.nb = MaxBots
    /\ n.skipped = <<1, 2>>
    /\ n.files = <<[group |-> 2, ids |-> {}]>>

====
